---- MODULE Spec2Model ----
(***************************************************************************)
(* A model of the blogging platform's HTTP layer (server/routes.ts) over   *)
(* its storage layer (server/storage.ts) and relational schema             *)
(* (shared/schema.ts and the generated migration).                         *)
(*                                                                         *)
(* The database is one variable per table.  A table is a sequence of rows  *)
(* in insertion order; a serial primary key is the row's insertion rank.   *)
(* SQL NULL for comments.parent_id is 0 (the handler itself maps every     *)
(* falsy parentId, 0 included, to null).  A request without a session user *)
(* has user 0.                                                             *)
(*                                                                         *)
(* Every handler exists twice: as one atomic action (the request runs to   *)
(* completion with no other request in between) and, for the handlers that *)
(* await more than one storage call, as a chain of steps of an in-flight   *)
(* request, one step per awaited storage call.  Both are built from the    *)
(* same storage operators and the same decision operators.                 *)
(***************************************************************************)
EXTENDS Integers, Sequences, FiniteSets, TLC

VARIABLES
    users,           \* table users: rows [id, email]
    waitlist,        \* table waitlist: rows [id, email]
    articles,        \* table articles: rows [id, authorId, views, likes, likedBy, bookmarkedBy, viewedBy]
    comments,        \* table comments: rows [id, articleId, userId, parentId, likes, createdAt]
    follows,         \* table follows: rows [followerId, followingId]
    bookmarks,       \* table bookmarks: rows [userId, articleId]
    readingHistory,  \* table reading_history: rows [userId, articleId]
    last,            \* the last request answered and its response
    inflight         \* requests that have started and not yet answered

db == <<users, waitlist, articles, comments, follows, bookmarks, readingHistory>>
vars == <<users, waitlist, articles, comments, follows, bookmarks, readingHistory, last, inflight>>

----------------------------------------------------------------------------
\* Bounds of the model.

MaxActors == 3
MaxRows == 5
GateRows == 3
MaxComments == 2
MaxFollows == 2
MaxCommentLikes == 2
MaxInflight == 2
MaxThread == 5
MaxLikeRows == 4
MaxRace == 6
MaxParties == 2

\* Program constants.

NoUser == 0
NullParent == 0
MinFullName == 2
MinPassword == 8

\* Inputs.

ValidEmails == {"a@x.io", "b@x.io"}
EmailInputs == ValidEmails \cup {"not-an-email"}
NameLens == {MinFullName - 1, MinFullName}
PasswordLens == {MinPassword - 1, MinPassword}

----------------------------------------------------------------------------
\* Helpers over sequences.

Range(s) == {s[i] : i \in DOMAIN s}

Count(s, x) == Cardinality({i \in DOMAIN s : s[i] = x})

\* Array.prototype.indexOf: the first index holding x, 0 for -1.
indexOf(s, x) ==
    IF \E i \in DOMAIN s : s[i] = x
    THEN CHOOSE i \in DOMAIN s : s[i] = x /\ \A j \in 1..(i - 1) : s[j] # x
    ELSE 0

\* Array.prototype.splice(i, 1): the array without its element at index i.
splice(s, i) == SubSeq(s, 1, i - 1) \o SubSeq(s, i + 1, Len(s))

Max(a, b) == IF a >= b THEN a ELSE b

\* Partial<Row> applied to a row: the fields data names are replaced.
Patch(row, data) == [f \in DOMAIN row |-> IF f \in DOMAIN data THEN data[f] ELSE row[f]]

----------------------------------------------------------------------------
\* shared/schema.ts: the validation schemas.  Each gives the messages of the
\* failing fields in the order of the schema's keys; the handlers answer
\* with the first.

IsEmail(s) == s \in ValidEmails

\* insertWaitlistSchema with its keys in the order of the extend call:
\* email, fullName.
insertWaitlistSchemaEmailFirst(body) ==
    (IF ~IsEmail(body.email)
     THEN <<"Please enter a valid email address">> ELSE <<>>)
    \o (IF body.nameLen < MinFullName
        THEN <<"Full name must be at least 2 characters">> ELSE <<>>)

\* pick({fullName, email}).extend({email, fullName}): keys fullName, email.
insertWaitlistSchema(body) ==
    (IF body.nameLen < MinFullName
     THEN <<"Full name must be at least 2 characters">> ELSE <<>>)
    \o (IF ~IsEmail(body.email)
        THEN <<"Please enter a valid email address">> ELSE <<>>)

\* pick({email, password, fullName, phone}).extend(...): keys email, password, fullName.
insertUserSchema(body) ==
    (IF ~IsEmail(body.email)
     THEN <<"Please enter a valid email address">> ELSE <<>>)
    \o (IF body.pwLen < MinPassword
        THEN <<"Password must be at least 8 characters">> ELSE <<>>)
    \o (IF body.nameLen < MinFullName
        THEN <<"Full name must be at least 2 characters">> ELSE <<>>)

----------------------------------------------------------------------------
\* The constraints of the migration: an insert that breaks one throws.

\* The waitlist table without its unique constraint: every insert passes.
waitlist_email_any(rows, email) == TRUE

\* CONSTRAINT "waitlist_email_unique" UNIQUE("email")
waitlist_email_unique(rows, email) == \A i \in DOMAIN rows : rows[i].email # email

\* The users table without its unique constraint: every insert passes.
users_email_any(rows, email) == TRUE

\* CONSTRAINT "users_email_unique" UNIQUE("email")
users_email_unique(rows, email) == \A i \in DOMAIN rows : rows[i].email # email

\* comments: "content" text NOT NULL, and the foreign keys article_id ->
\* articles.id, user_id -> users.id, parent_id -> comments.id (NULL passes).
comments_constraints(row, hasContent) ==
    /\ hasContent
    /\ \E i \in DOMAIN articles : articles[i].id = row.articleId
    /\ \E i \in DOMAIN users : users[i].id = row.userId
    /\ \/ row.parentId = NullParent
       \/ \E i \in DOMAIN comments : comments[i].id = row.parentId

\* follows: the foreign keys follower_id -> users.id, following_id -> users.id.
follows_constraints(followerId, followingId) ==
    /\ \E i \in DOMAIN users : users[i].id = followerId
    /\ \E i \in DOMAIN users : users[i].id = followingId

----------------------------------------------------------------------------
\* server/storage.ts: class Storage.  Each operator takes the table it reads
\* and gives the rows selected or the table after the statement.

addToWaitlist(rows, entry) ==
    Append(rows, [id |-> Len(rows) + 1, email |-> entry.email])

getWaitlistCount(rows) == Len(rows)

createUser(rows, user) ==
    Append(rows, [id |-> Len(rows) + 1, email |-> user.email])

\* getUserByEmail called with a field the body does not carry: the empty
\* string, which no row's email equals.
getUserByEmailMiss(rows, email) == SelectSeq(rows, LAMBDA r : r.email = "")

getUserByEmail(rows, email) == SelectSeq(rows, LAMBDA r : r.email = email)

createArticle(rows, article) ==
    Append(rows, [id |-> Len(rows) + 1,
                  authorId |-> article.authorId,
                  views |-> article.views,
                  likes |-> article.likes,
                  likedBy |-> article.likedBy,
                  bookmarkedBy |-> article.bookmarkedBy,
                  viewedBy |-> article.viewedBy])

getArticleById(rows, id) == SelectSeq(rows, LAMBDA r : r.id = id)

\* The row of the article with this id, in a table that holds it.
ArticleRow(rows, id) == Head(getArticleById(rows, id))

\* updateArticle that writes the whole row: a column missing from data is
\* set to its default.
updateArticleWholeRow(rows, id, data) ==
    [i \in DOMAIN rows |->
        IF rows[i].id = id
        THEN Patch([rows[i] EXCEPT !.views = 0, !.likes = 0, !.likedBy = <<>>,
                                   !.bookmarkedBy = <<>>, !.viewedBy = <<>>], data)
        ELSE rows[i]]

updateArticle(rows, id, data) ==
    [i \in DOMAIN rows |-> IF rows[i].id = id THEN Patch(rows[i], data) ELSE rows[i]]

\* incrementArticleViews that sets views to the length of viewedBy.
incrementArticleViewsToViewers(rows, id) ==
    [i \in DOMAIN rows |->
        IF rows[i].id = id THEN [rows[i] EXCEPT !.views = Len(rows[i].viewedBy)] ELSE rows[i]]

incrementArticleViews(rows, id) ==
    [i \in DOMAIN rows |->
        IF rows[i].id = id THEN [rows[i] EXCEPT !.views = @ + 1] ELSE rows[i]]

\* followUser that inserts only when the pair has no row yet.
followUserOnce(rows, followerId, followingId) ==
    IF \E i \in DOMAIN rows :
           rows[i].followerId = followerId /\ rows[i].followingId = followingId
    THEN rows
    ELSE Append(rows, [followerId |-> followerId, followingId |-> followingId])

followUser(rows, followerId, followingId) ==
    Append(rows, [followerId |-> followerId, followingId |-> followingId])

\* unfollowUser that deletes one row of the pair, the oldest.
unfollowUserOnce(rows, followerId, followingId) ==
    LET first == indexOf([i \in DOMAIN rows |->
                     rows[i].followerId = followerId /\ rows[i].followingId = followingId],
                     TRUE)
    IN IF first = 0 THEN rows ELSE splice(rows, first)

unfollowUser(rows, followerId, followingId) ==
    SelectSeq(rows, LAMBDA r : ~(r.followerId = followerId /\ r.followingId = followingId))

\* created_at timestamp DEFAULT now(): the values the database clock may
\* give the next row.  The clock does not run backwards and two inserts may
\* read the same instant.
defaultNow(rows) ==
    LET latest == IF rows = <<>> THEN 0
                  ELSE CHOOSE t \in {rows[i].createdAt : i \in DOMAIN rows} :
                           \A i \in DOMAIN rows : rows[i].createdAt <= t
    IN {latest, latest + 1}

createComment(rows, comment, now) ==
    Append(rows, [id |-> Len(rows) + 1,
                  articleId |-> comment.articleId,
                  userId |-> comment.userId,
                  parentId |-> comment.parentId,
                  likes |-> 0,
                  createdAt |-> now])

\* .orderBy(desc(comments.createdAt)): the orders in which the database may
\* return a set of rows, rows of equal createdAt in any order.
orderByDescCreatedAt(selected) ==
    {s \in [1..Cardinality(selected) -> selected] :
        /\ Range(s) = selected
        /\ \A i \in DOMAIN s : \A j \in DOMAIN s :
               i < j => s[i].createdAt >= s[j].createdAt}

\* getReplies without its orderBy: the rows in insertion order.
getRepliesUnordered(rows, commentId) ==
    {SelectSeq(rows, LAMBDA r : r.parentId = commentId)}

\* getReplies that follows parentId down the thread: the replies and the
\* replies to them.
getRepliesNested(rows, commentId) ==
    orderByDescCreatedAt({rows[i] : i \in {k \in DOMAIN rows :
        \/ rows[k].parentId = commentId
        \/ \E p \in DOMAIN rows :
              rows[p].id = rows[k].parentId /\ rows[p].parentId = commentId}})

\* comments inner join users where parentId = commentId, newest first.
getReplies(rows, commentId) ==
    orderByDescCreatedAt({rows[i] : i \in {k \in DOMAIN rows :
        /\ rows[k].parentId = commentId
        /\ \E u \in DOMAIN users : users[u].id = rows[k].userId}})

\* comments inner join users where articleId = articleId and parentId IS
\* NULL, newest first.
getArticleComments(rows, articleId) ==
    orderByDescCreatedAt({rows[i] : i \in {k \in DOMAIN rows :
        /\ rows[k].articleId = articleId
        /\ rows[k].parentId = NullParent
        /\ \E u \in DOMAIN users : users[u].id = rows[k].userId}})

\* getCommentWithReplies that reads the replies before the new row is in.
getCommentWithRepliesStale(rows, commentId) ==
    {[id |-> c.id, parentId |-> c.parentId, createdAt |-> c.createdAt,
      replies |-> SubSeq(replies, 2, Len(replies))] :
        c \in {r \in Range(rows) :
                  /\ r.id = commentId
                  /\ \E u \in DOMAIN users : users[u].id = r.userId},
        replies \in getReplies(rows, commentId)}

\* comments inner join users where id = commentId, with getReplies of it: the
\* results the call may give, none if it throws "Comment not found".
getCommentWithReplies(rows, commentId) ==
    {[id |-> c.id, parentId |-> c.parentId, createdAt |-> c.createdAt,
      replies |-> replies] :
        c \in {r \in Range(rows) :
                  /\ r.id = commentId
                  /\ \E u \in DOMAIN users : users[u].id = r.userId},
        replies \in getReplies(rows, commentId)}

\* likeComment that marks the comment as liked: likes is set to 1.
likeCommentMarks(rows, commentId) ==
    [i \in DOMAIN rows |->
        IF rows[i].id = commentId THEN [rows[i] EXCEPT !.likes = 1] ELSE rows[i]]

likeComment(rows, commentId) ==
    [i \in DOMAIN rows |->
        IF rows[i].id = commentId THEN [rows[i] EXCEPT !.likes = @ + 1] ELSE rows[i]]

\* addBookmark under a unique (userId, articleId) key that skips a pair
\* already stored.
addBookmarkOnce(rows, userId, articleId) ==
    IF \E i \in DOMAIN rows : rows[i].userId = userId /\ rows[i].articleId = articleId
    THEN rows
    ELSE Append(rows, [userId |-> userId, articleId |-> articleId])

addBookmark(rows, userId, articleId) ==
    Append(rows, [userId |-> userId, articleId |-> articleId])

\* removeBookmark that deletes by user alone: the article condition is lost.
removeBookmarkOfUser(rows, userId, articleId) ==
    SelectSeq(rows, LAMBDA r : r.userId # userId)

removeBookmark(rows, userId, articleId) ==
    SelectSeq(rows, LAMBDA r : ~(r.userId = userId /\ r.articleId = articleId))

\* bookmarks inner join articles on articles.id = bookmarks.articleId
\* where bookmarks.userId = userId: one article id per joined row.
getUserBookmarks(rows, arts, userId) ==
    LET mine == SelectSeq(rows, LAMBDA r :
                    r.userId = userId /\ \E i \in DOMAIN arts : arts[i].id = r.articleId)
    IN [i \in DOMAIN mine |-> mine[i].articleId]

addToReadingHistory(rows, userId, articleId) ==
    Append(rows, [userId |-> userId, articleId |-> articleId])

\* reading_history inner join articles where userId = userId, order by
\* readAt descending: one article id per joined row, the row inserted last
\* first.
getUserReadingHistory(rows, arts, userId) ==
    LET mine == SelectSeq(rows, LAMBDA r :
                    r.userId = userId /\ \E i \in DOMAIN arts : arts[i].id = r.articleId)
    IN [i \in DOMAIN mine |-> mine[Len(mine) + 1 - i].articleId]

\* follows inner join users on users.id = follows.followerId where
\* follows.followingId = userId: one user id per joined row.
getFollowers(rows, userId) ==
    LET mine == SelectSeq(rows, LAMBDA r :
                    r.followingId = userId /\ \E u \in DOMAIN users : users[u].id = r.followerId)
    IN [i \in DOMAIN mine |-> mine[i].followerId]

isFollowing(rows, followerId, followingId) ==
    \E i \in DOMAIN rows :
        rows[i].followerId = followerId /\ rows[i].followingId = followingId

----------------------------------------------------------------------------
\* Requests and responses.

\* A request body: the fields the handlers read.  fullName and password are
\* their lengths; title and content say whether a non-empty string was sent.
NoBody == [email |-> "", nameLen |-> 0, pwLen |-> 0,
           title |-> FALSE, content |-> FALSE, parentId |-> NullParent]

\* What getArticleById gave a handler that found no article, or never asked.
NoArticle == [id |-> 0, authorId |-> 0, views |-> 0, likes |-> 0,
              likedBy |-> <<>>, bookmarkedBy |-> <<>>, viewedBy |-> <<>>]

\* The record of an answered request: the route (op), req.user's id, the
\* :id parameter, the body, the article row the handler read (pre), and the
\* response's status and message.  result and calls are filled by Reply;
\* sent holds, for each user record in the response body, the keys of that
\* record.
Answer(op, user, id, body, pre, status, message) ==
    [op |-> op, user |-> user, id |-> id, body |-> body, pre |-> pre,
     status |-> status, message |-> message, result |-> <<>>, calls |-> <<>>,
     sent |-> <<>>]

\* shared/schema.ts: the columns of the users table, the keys of a user row.
UserColumns ==
    {"id", "email", "password", "fullName", "phone", "avatar", "role", "isActive",
     "points", "createdAt", "updatedAt"}

\* const { password, ...userWithoutPassword } = user
userWithoutPassword(keys) == keys \ {"password"}

\* The record of an answered GET request: as above, with the rows of the
\* response (result) and the storage functions the handler called, in
\* order (calls; the POST routes' records do not list theirs).
Reply(op, user, id, status, message, result, calls) ==
    [Answer(op, user, id, NoBody, NoArticle, status, message)
        EXCEPT !.result = result, !.calls = calls]

\* req.user: no session user, or the row of a registered user.
Callers == {NoUser} \cup {users[i].id : i \in DOMAIN users}

\* The values of a route's :id parameter: the ids in use and one that is not.
ArticleIds == 1..(Len(articles) + 1)
CommentIds == 1..(Len(comments) + 1)
UserIds == 1..(Len(users) + 1)

----------------------------------------------------------------------------
\* The decisions the toggle handlers take on the article they have read.

\* likeToggle with the membership test lost: every request adds a like.
likeToggleAlwaysAdds(article, userId) ==
    [data |-> [likedBy |-> Append(article.likedBy, userId),
               likes |-> article.likes + 1],
     added |-> TRUE,
     message |-> "Article liked successfully"]

\* likeToggle whose unlike branch removes the user and keeps the counter.
likeToggleKeepsCount(article, userId) ==
    LET likedBy == article.likedBy
        userIndex == indexOf(likedBy, userId)
    IN IF userIndex = 0
       THEN [data |-> [likedBy |-> Append(likedBy, userId),
                       likes |-> article.likes + 1],
             added |-> TRUE,
             message |-> "Article liked successfully"]
       ELSE [data |-> [likedBy |-> splice(likedBy, userIndex),
                       likes |-> article.likes],
             added |-> FALSE,
             message |-> "Article unliked successfully"]

\* likeToggle whose like branch adds the user and forgets the counter.
likeToggleForgetsCount(article, userId) ==
    LET likedBy == article.likedBy
        userIndex == indexOf(likedBy, userId)
    IN IF userIndex = 0
       THEN [data |-> [likedBy |-> Append(likedBy, userId),
                       likes |-> article.likes],
             added |-> TRUE,
             message |-> "Article liked successfully"]
       ELSE [data |-> [likedBy |-> splice(likedBy, userIndex),
                       likes |-> Max(0, article.likes - 1)],
             added |-> FALSE,
             message |-> "Article unliked successfully"]

\* likeToggle whose two branches both lower the counter, without a floor.
likeToggleCountsDown(article, userId) ==
    LET likedBy == article.likedBy
        userIndex == indexOf(likedBy, userId)
    IN IF userIndex = 0
       THEN [data |-> [likedBy |-> Append(likedBy, userId),
                       likes |-> article.likes - 1],
             added |-> TRUE,
             message |-> "Article liked successfully"]
       ELSE [data |-> [likedBy |-> splice(likedBy, userIndex),
                       likes |-> article.likes - 1],
             added |-> FALSE,
             message |-> "Article unliked successfully"]

\* POST /api/articles/:id/like: the update to write and the message.
likeToggle(article, userId) ==
    LET likedBy == article.likedBy
        userIndex == indexOf(likedBy, userId)
    IN IF userIndex = 0
       THEN [data |-> [likedBy |-> Append(likedBy, userId),
                       likes |-> article.likes + 1],
             added |-> TRUE,
             message |-> "Article liked successfully"]
       ELSE [data |-> [likedBy |-> splice(likedBy, userIndex),
                       likes |-> Max(0, article.likes - 1)],
             added |-> FALSE,
             message |-> "Article unliked successfully"]

\* bookmarkToggle without the indexOf test: the user is always added.
bookmarkToggleAlwaysAdds(article, userId) ==
    [data |-> [bookmarkedBy |-> Append(article.bookmarkedBy, userId)],
     added |-> TRUE,
     message |-> "Article bookmarked successfully"]

\* POST /api/articles/:id/bookmark: the update to write and the message.
bookmarkToggle(article, userId) ==
    LET bookmarkedBy == article.bookmarkedBy
        userIndex == indexOf(bookmarkedBy, userId)
    IN IF userIndex = 0
       THEN [data |-> [bookmarkedBy |-> Append(bookmarkedBy, userId)],
             added |-> TRUE,
             message |-> "Article bookmarked successfully"]
       ELSE [data |-> [bookmarkedBy |-> splice(bookmarkedBy, userIndex)],
             added |-> FALSE,
             message |-> "Bookmark removed successfully"]

\* viewOnce with the membership test lost: every view counts as the first.
viewEveryTime(article, userId) ==
    [first |-> TRUE,
     data |-> [viewedBy |-> Append(article.viewedBy, userId)]]

\* POST /api/articles/:id/view: whether this is the user's first view, and
\* the update to write if it is.
viewOnce(article, userId) ==
    LET viewedBy == article.viewedBy
    IN [first |-> userId \notin Range(viewedBy),
        data |-> [viewedBy |-> Append(viewedBy, userId)]]

----------------------------------------------------------------------------
\* server/routes.ts: the handlers, each as one atomic action (the request
\* runs from its first line to its response with no other request between).

\* POST /api/auth/register
PostRegister(body) ==
    LET errors == insertUserSchema(body)
        existingUser == getUserByEmail(users, body.email)
        reply(status, message) ==
            Answer("register", NoUser, 0, body, NoArticle, status, message)
    IN /\ IF errors # <<>>
          THEN users' = users /\ last' = reply(400, Head(errors))
          ELSE IF existingUser # <<>>
          THEN users' = users /\ last' = reply(400, "Email already registered")
          ELSE IF ~users_email_unique(users, body.email)
          THEN users' = users /\ last' = reply(500, "Internal server error")
          ELSE /\ users' = createUser(users, body)
               /\ last' = [reply(200, "") EXCEPT
                               !.sent = <<userWithoutPassword(UserColumns)>>]
       /\ UNCHANGED <<waitlist, articles, comments, follows, bookmarks,
                      readingHistory, inflight>>

\* POST /api/auth/logout
PostLogout(user) ==
    /\ last' = Answer("logout", user, 0, NoBody, NoArticle, 200, "Logged out successfully")
    /\ UNCHANGED <<db, inflight>>

\* POST /api/waitlist
PostWaitlist(body) ==
    LET errors == insertWaitlistSchema(body)
        reply(status, message) ==
            Answer("waitlist", NoUser, 0, body, NoArticle, status, message)
    IN /\ IF errors # <<>>
          THEN waitlist' = waitlist /\ last' = reply(400, Head(errors))
          ELSE IF ~waitlist_email_unique(waitlist, body.email)
          THEN waitlist' = waitlist /\ last' = reply(500, "Internal server error")
          ELSE waitlist' = addToWaitlist(waitlist, body) /\ last' = reply(200, "")
       /\ UNCHANGED <<users, articles, comments, follows, bookmarks,
                      readingHistory, inflight>>

\* POST /api/articles
PostArticles(user, body) ==
    LET reply(status, message) ==
            Answer("articles", user, 0, body, NoArticle, status, message)
    IN /\ IF user = NoUser
          THEN articles' = articles /\ last' = reply(401, "Not authenticated")
          ELSE IF ~body.title
          THEN /\ articles' = articles
               /\ last' = reply(400, "Title is required and must be a string")
          ELSE IF ~body.content
          THEN /\ articles' = articles
               /\ last' = reply(400, "Content is required and must be a string")
          ELSE /\ articles' = createArticle(articles,
                     [authorId |-> user, views |-> 0, likes |-> 0, likedBy |-> <<>>,
                      bookmarkedBy |-> <<>>, viewedBy |-> <<>>])
               /\ last' = reply(200, "")
       /\ UNCHANGED <<users, waitlist, comments, follows, bookmarks,
                      readingHistory, inflight>>

\* POST /api/articles/:id/like
PostArticleLike(user, id) ==
    LET found == getArticleById(articles, id)
        reply(pre, status, message) == Answer("like", user, id, NoBody, pre, status, message)
    IN /\ IF user = NoUser
          THEN articles' = articles /\ last' = reply(NoArticle, 401, "Not authenticated")
          ELSE IF found = <<>>
          THEN articles' = articles /\ last' = reply(NoArticle, 404, "Article not found")
          ELSE LET article == Head(found)
                   toggle == likeToggle(article, user)
               IN /\ articles' = updateArticle(articles, id, toggle.data)
                  /\ last' = reply(article, 200, toggle.message)
       /\ UNCHANGED <<users, waitlist, comments, follows, bookmarks,
                      readingHistory, inflight>>

\* PostArticleBookmark without its article test: a missing article is
\* bookmarked as an article nobody has bookmarked.
PostArticleBookmarkUnchecked(user, id) ==
    LET found == getArticleById(articles, id)
        article == IF found = <<>> THEN NoArticle ELSE Head(found)
        toggle == bookmarkToggle(article, user)
    IN /\ IF user = NoUser
          THEN /\ UNCHANGED <<articles, bookmarks>>
               /\ last' = Answer("bookmark", user, id, NoBody, NoArticle,
                                 401, "Not authenticated")
          ELSE /\ articles' = updateArticle(articles, id, toggle.data)
               /\ bookmarks' = IF toggle.added
                               THEN addBookmark(bookmarks, user, id)
                               ELSE removeBookmark(bookmarks, user, id)
               /\ last' = Answer("bookmark", user, id, NoBody, article, 200, toggle.message)
       /\ UNCHANGED <<users, waitlist, comments, follows, readingHistory, inflight>>

\* POST /api/articles/:id/bookmark
PostArticleBookmark(user, id) ==
    LET found == getArticleById(articles, id)
        reply(pre, status, message) ==
            Answer("bookmark", user, id, NoBody, pre, status, message)
    IN /\ IF user = NoUser
          THEN /\ UNCHANGED <<articles, bookmarks>>
               /\ last' = reply(NoArticle, 401, "Not authenticated")
          ELSE IF found = <<>>
          THEN /\ UNCHANGED <<articles, bookmarks>>
               /\ last' = reply(NoArticle, 404, "Article not found")
          ELSE LET article == Head(found)
                   toggle == bookmarkToggle(article, user)
               IN /\ articles' = updateArticle(articles, id, toggle.data)
                  /\ bookmarks' = IF toggle.added
                                  THEN addBookmark(bookmarks, user, id)
                                  ELSE removeBookmark(bookmarks, user, id)
                  /\ last' = reply(article, 200, toggle.message)
       /\ UNCHANGED <<users, waitlist, comments, follows, readingHistory, inflight>>

\* POST /api/articles/:id/view
PostArticleView(user, id) ==
    LET found == getArticleById(articles, id)
        reply(pre, status, message) == Answer("view", user, id, NoBody, pre, status, message)
    IN /\ IF user = NoUser
          THEN /\ UNCHANGED <<articles, readingHistory>>
               /\ last' = reply(NoArticle, 401, "Not authenticated")
          ELSE IF found = <<>>
          THEN /\ UNCHANGED <<articles, readingHistory>>
               /\ last' = reply(NoArticle, 404, "Article not found")
          ELSE LET article == Head(found)
                   view == viewOnce(article, user)
               IN /\ IF view.first
                     THEN /\ articles' = incrementArticleViews(
                                            updateArticle(articles, id, view.data), id)
                          /\ readingHistory' = addToReadingHistory(readingHistory, user, id)
                     ELSE UNCHANGED <<articles, readingHistory>>
                  /\ last' = reply(article, 200, "View count updated successfully")
       /\ UNCHANGED <<users, waitlist, comments, follows, bookmarks, inflight>>

\* POST /api/articles/:id/comments
PostComments(user, id, body) ==
    LET row == [articleId |-> id, userId |-> user, parentId |-> body.parentId]
        reply(status, message) == Answer("comments", user, id, body, NoArticle, status, message)
    IN /\ IF user = NoUser
          THEN comments' = comments /\ last' = reply(401, "Not authenticated")
          ELSE IF ~comments_constraints(row, body.content)
          THEN comments' = comments /\ last' = reply(500, "Internal server error")
          ELSE \E now \in defaultNow(comments) :
                  LET stored == createComment(comments, row, now)
                      comment == stored[Len(stored)]
                      found == getCommentWithReplies(stored, body.parentId)
                  IN /\ comments' = stored
                     /\ IF body.parentId = NullParent
                        THEN last' = [reply(200, "") EXCEPT !.result =
                                 <<[id |-> comment.id, parentId |-> comment.parentId,
                                    createdAt |-> comment.createdAt]>>]
                        ELSE IF found = {}
                        THEN last' = reply(500, "Internal server error")
                        ELSE \E parentComment \in found :
                                last' = [reply(200, "") EXCEPT !.result = <<parentComment>>]
       /\ UNCHANGED <<users, waitlist, articles, follows, bookmarks,
                      readingHistory, inflight>>

\* PostCommentLike without its req.user test.
PostCommentLikeUngated(user, id) ==
    /\ comments' = likeComment(comments, id)
    /\ last' = Answer("commentLike", user, id, NoBody, NoArticle,
                      200, "Comment liked successfully")
    /\ UNCHANGED <<users, waitlist, articles, follows, bookmarks,
                   readingHistory, inflight>>

\* GET /api/articles/:id/comments: the top-level comments of the article,
\* each with the replies getReplies gives for it.  The handler does not
\* read req.user.
GetArticleComments(id) ==
    /\ \E tops \in getArticleComments(comments, id) :
       \E replies \in [DOMAIN tops -> UNION {getReplies(comments, tops[i].id) : i \in DOMAIN tops}] :
          /\ \A i \in DOMAIN tops : replies[i] \in getReplies(comments, tops[i].id)
          /\ last' = [Reply("getComments", NoUser, id, 200, "",
                 [i \in DOMAIN tops |->
                     [id |-> tops[i].id, createdAt |-> tops[i].createdAt,
                      replies |-> replies[i]]],
                 <<"getArticleComments">> \o [i \in DOMAIN tops |-> "getReplies"])
                 EXCEPT !.sent =
                     [n \in 1..(Len(tops) + Cardinality({k \in DOMAIN comments :
                         \E i \in DOMAIN tops : comments[k].parentId = tops[i].id}))
                      |-> UserColumns]]
    /\ UNCHANGED <<db, inflight>>

\* GET /api/auth/me
GetMe(user) ==
    /\ last' = IF user = NoUser
               THEN Reply("getMe", user, 0, 401, "Not authenticated", <<>>, <<>>)
               ELSE [Reply("getMe", user, 0, 200, "", <<[id |-> user]>>, <<>>)
                        EXCEPT !.sent = <<userWithoutPassword(UserColumns)>>]
    /\ UNCHANGED <<db, inflight>>

\* GET /api/articles/:id.  The handler does not read req.user.
GetArticle(id) ==
    LET found == getArticleById(articles, id)
    IN /\ last' = IF found = <<>>
                  THEN Reply("getArticle", NoUser, id, 404, "Article not found",
                             <<>>, <<"getArticleById">>)
                  ELSE Reply("getArticle", NoUser, id, 200, "", found, <<"getArticleById">>)
       /\ UNCHANGED <<db, inflight>>

\* GET /api/users/:id/followers.  The handler does not read req.user.
GetFollowers(id) ==
    LET listed == getFollowers(follows, id)
    IN /\ last' = [Reply("getFollowers", NoUser, id, 200, "",
                         [i \in DOMAIN listed |-> [id |-> listed[i]]], <<"getFollowers">>)
                      EXCEPT !.sent = [i \in DOMAIN listed |-> UserColumns]]
       /\ UNCHANGED <<db, inflight>>

\* GET /api/users/:id/following/check
GetFollowingCheck(user, id) ==
    /\ last' = IF user = NoUser
               THEN Reply("followingCheck", user, id, 401, "Not authenticated", <<>>, <<>>)
               ELSE Reply("followingCheck", user, id, 200, "",
                          <<[following |-> isFollowing(follows, user, id)]>>,
                          <<"isFollowing">>)
    /\ UNCHANGED <<db, inflight>>

\* GetMyBookmarks without its req.user test.
GetMyBookmarksUngated(user) ==
    LET listed == getUserBookmarks(bookmarks, articles, user)
    IN /\ last' = Reply("getBookmarks", user, 0, 200, "",
                        [i \in DOMAIN listed |-> [id |-> listed[i]]],
                        <<"getUserBookmarks">>)
       /\ UNCHANGED <<db, inflight>>

\* GET /api/me/bookmarks
GetMyBookmarks(user) ==
    LET listed == getUserBookmarks(bookmarks, articles, user)
    IN /\ last' = IF user = NoUser
                  THEN Reply("getBookmarks", user, 0, 401, "Not authenticated", <<>>, <<>>)
                  ELSE Reply("getBookmarks", user, 0, 200, "",
                             [i \in DOMAIN listed |-> [id |-> listed[i]]],
                             <<"getUserBookmarks">>)
       /\ UNCHANGED <<db, inflight>>

\* GET /api/me/reading-history
GetMyReadingHistory(user) ==
    LET listed == getUserReadingHistory(readingHistory, articles, user)
    IN /\ last' = IF user = NoUser
                  THEN Reply("getHistory", user, 0, 401, "Not authenticated", <<>>, <<>>)
                  ELSE Reply("getHistory", user, 0, 200, "",
                             [i \in DOMAIN listed |-> [id |-> listed[i]]],
                             <<"getUserReadingHistory">>)
       /\ UNCHANGED <<db, inflight>>

\* POST /api/comments/:id/like
PostCommentLike(user, id) ==
    LET reply(status, message) ==
            Answer("commentLike", user, id, NoBody, NoArticle, status, message)
    IN /\ IF user = NoUser
          THEN comments' = comments /\ last' = reply(401, "Not authenticated")
          ELSE /\ comments' = likeComment(comments, id)
               /\ last' = reply(200, "Comment liked successfully")
       /\ UNCHANGED <<users, waitlist, articles, follows, bookmarks,
                      readingHistory, inflight>>

\* POST /api/users/:id/follow
PostFollow(user, id) ==
    LET reply(status, message) == Answer("follow", user, id, NoBody, NoArticle, status, message)
    IN /\ IF user = NoUser
          THEN follows' = follows /\ last' = reply(401, "Not authenticated")
          ELSE IF ~follows_constraints(user, id)
          THEN follows' = follows /\ last' = reply(500, "Internal server error")
          ELSE /\ follows' = followUser(follows, user, id)
               /\ last' = reply(200, "Successfully followed user")
       /\ UNCHANGED <<users, waitlist, articles, comments, bookmarks,
                      readingHistory, inflight>>

\* POST /api/users/:id/unfollow
PostUnfollow(user, id) ==
    LET reply(status, message) ==
            Answer("unfollow", user, id, NoBody, NoArticle, status, message)
    IN /\ IF user = NoUser
          THEN follows' = follows /\ last' = reply(401, "Not authenticated")
          ELSE /\ follows' = unfollowUser(follows, user, id)
               /\ last' = reply(200, "Successfully unfollowed user")
       /\ UNCHANGED <<users, waitlist, articles, comments, bookmarks,
                      readingHistory, inflight>>

----------------------------------------------------------------------------
\* The same handlers step by step: a step runs the handler up to and
\* including its next awaited storage call, and other requests may run
\* between two steps.  inflight keeps every request begun this way: the
\* storage call it waits for (pc, "done" once answered), the article row it
\* read, its body (of a register request), and its response.

Pending(op, user, id, pc, article) ==
    [op |-> op, user |-> user, id |-> id, pc |-> pc, article |-> article,
     status |-> 0, message |-> "", body |-> NoBody]

Answered(op, user, id, article, status, message) ==
    [op |-> op, user |-> user, id |-> id, pc |-> "done", article |-> article,
     status |-> status, message |-> message, body |-> NoBody]

\* POST /api/articles/:id/like up to the answer of getArticleById.
BeginArticleLike(user, id) ==
    LET found == getArticleById(articles, id)
    IN /\ IF user = NoUser
          THEN /\ inflight' = Append(inflight,
                      Answered("like", user, id, NoArticle, 401, "Not authenticated"))
               /\ last' = Answer("like", user, id, NoBody, NoArticle,
                                 401, "Not authenticated")
          ELSE IF found = <<>>
          THEN /\ inflight' = Append(inflight,
                      Answered("like", user, id, NoArticle, 404, "Article not found"))
               /\ last' = Answer("like", user, id, NoBody, NoArticle,
                                 404, "Article not found")
          ELSE /\ inflight' = Append(inflight,
                      Pending("like", user, id, "updateArticle", Head(found)))
               /\ last' = last
       /\ UNCHANGED db

\* ResumeArticleLike writing likes as an SQL increment or decrement of the
\* stored counter, and likedBy from the row it read.
ResumeArticleLikeCounting(k) ==
    LET request == inflight[k]
        toggle == likeToggle(request.article, request.user)
        stored == ArticleRow(articles, request.id).likes
    IN /\ request.op = "like"
       /\ request.pc = "updateArticle"
       /\ articles' = updateArticle(articles, request.id,
              [likedBy |-> toggle.data.likedBy,
               likes |-> IF toggle.added THEN stored + 1 ELSE Max(0, stored - 1)])
       /\ inflight' = [inflight EXCEPT ![k] =
              Answered("like", request.user, request.id, request.article,
                       200, toggle.message)]
       /\ last' = Answer("like", request.user, request.id, NoBody, request.article,
                         200, toggle.message)
       /\ UNCHANGED <<users, waitlist, comments, follows, bookmarks, readingHistory>>

\* POST /api/articles/:id/like from the answer of getArticleById on: the
\* toggle decided on the row read, updateArticle, and the response.
ResumeArticleLike(k) ==
    LET request == inflight[k]
        toggle == likeToggle(request.article, request.user)
    IN /\ request.op = "like"
       /\ request.pc = "updateArticle"
       /\ articles' = updateArticle(articles, request.id, toggle.data)
       /\ inflight' = [inflight EXCEPT ![k] =
              Answered("like", request.user, request.id, request.article,
                       200, toggle.message)]
       /\ last' = Answer("like", request.user, request.id, NoBody, request.article,
                         200, toggle.message)
       /\ UNCHANGED <<users, waitlist, comments, follows, bookmarks, readingHistory>>

\* POST /api/articles/:id/view up to the answer of getArticleById and the
\* membership test on the row read.
BeginArticleView(user, id) ==
    LET found == getArticleById(articles, id)
        answered(article, status, message) ==
            /\ inflight' = Append(inflight, Answered("view", user, id, article, status, message))
            /\ last' = Answer("view", user, id, NoBody, article, status, message)
    IN /\ IF user = NoUser
          THEN answered(NoArticle, 401, "Not authenticated")
          ELSE IF found = <<>>
          THEN answered(NoArticle, 404, "Article not found")
          ELSE IF ~viewOnce(Head(found), user).first
          THEN answered(Head(found), 200, "View count updated successfully")
          ELSE /\ inflight' = Append(inflight,
                      Pending("view", user, id, "updateArticle", Head(found)))
               /\ last' = last
       /\ UNCHANGED db

\* POST /api/articles/:id/view, a first view, from the membership test on:
\* one step per awaited call, updateArticle with the viewedBy of the row
\* read plus the user, incrementArticleViews, addToReadingHistory and the
\* response.
StepArticleView(k) ==
    LET request == inflight[k]
        waits(pc) == [inflight EXCEPT ![k].pc = pc]
    IN /\ request.op = "view"
       /\ \/ /\ request.pc = "updateArticle"
             /\ articles' = updateArticle(articles, request.id,
                                viewOnce(request.article, request.user).data)
             /\ inflight' = waits("incrementArticleViews")
             /\ UNCHANGED <<readingHistory, last>>
          \/ /\ request.pc = "incrementArticleViews"
             /\ articles' = incrementArticleViews(articles, request.id)
             /\ inflight' = waits("addToReadingHistory")
             /\ UNCHANGED <<readingHistory, last>>
          \/ /\ request.pc = "addToReadingHistory"
             /\ readingHistory' = addToReadingHistory(readingHistory, request.user, request.id)
             /\ inflight' = [inflight EXCEPT ![k] =
                    Answered("view", request.user, request.id, request.article,
                             200, "View count updated successfully")]
             /\ last' = Answer("view", request.user, request.id, NoBody, request.article,
                               200, "View count updated successfully")
             /\ UNCHANGED articles
       /\ UNCHANGED <<users, waitlist, comments, follows, bookmarks>>

\* POST /api/auth/register up to the answer of getUserByEmail.
BeginRegister(body) ==
    LET errors == insertUserSchema(body)
        existingUser == getUserByEmail(users, body.email)
        refused(message) ==
            /\ inflight' = Append(inflight,
                   [Answered("register", NoUser, 0, NoArticle, 400, message)
                       EXCEPT !.body = body])
            /\ last' = Answer("register", NoUser, 0, body, NoArticle, 400, message)
    IN /\ IF errors # <<>>
          THEN refused(Head(errors))
          ELSE IF existingUser # <<>>
          THEN refused("Email already registered")
          ELSE /\ inflight' = Append(inflight,
                      [Pending("register", NoUser, 0, "createUser", NoArticle)
                          EXCEPT !.body = body])
               /\ last' = last
       /\ UNCHANGED db

\* POST /api/auth/register from the answer of getUserByEmail on: the
\* password hash, createUser, and the response; an insert the unique
\* constraint refuses throws, and the catch block answers 500.
ResumeRegister(k) ==
    LET request == inflight[k]
        inserted == users_email_unique(users, request.body.email)
        status == IF inserted THEN 200 ELSE 500
        message == IF inserted THEN "" ELSE "Internal server error"
    IN /\ request.op = "register"
       /\ request.pc = "createUser"
       /\ users' = IF inserted THEN createUser(users, request.body) ELSE users
       /\ inflight' = [inflight EXCEPT ![k] =
              [Answered("register", NoUser, 0, NoArticle, status, message)
                  EXCEPT !.body = request.body]]
       /\ last' = [Answer("register", NoUser, 0, request.body, NoArticle, status, message)
                       EXCEPT !.sent = IF inserted
                                       THEN <<userWithoutPassword(UserColumns)>>
                                       ELSE <<>>]
       /\ UNCHANGED <<waitlist, articles, comments, follows, bookmarks, readingHistory>>

----------------------------------------------------------------------------
\* The state after construction: every table empty, nothing answered.

NoRequest == Answer("none", NoUser, 0, NoBody, NoArticle, 0, "")

Init ==
    /\ users = <<>>
    /\ waitlist = <<>>
    /\ articles = <<>>
    /\ comments = <<>>
    /\ follows = <<>>
    /\ bookmarks = <<>>
    /\ readingHistory = <<>>
    /\ last = NoRequest
    /\ inflight = <<>>

\* Request bodies.
UserBodies ==
    {[NoBody EXCEPT !.email = e, !.nameLen = n, !.pwLen = p] :
        e \in EmailInputs, n \in NameLens, p \in PasswordLens}
ValidUserBodies == {b \in UserBodies : insertUserSchema(b) = <<>>}
WaitlistBodies ==
    {[NoBody EXCEPT !.email = e, !.nameLen = n] : e \in EmailInputs, n \in NameLens}
ArticleBodies ==
    {[NoBody EXCEPT !.title = t, !.content = c] : t \in BOOLEAN, c \in BOOLEAN}
ValidArticleBodies == {b \in ArticleBodies : b.title /\ b.content}
CommentBodies ==
    {[NoBody EXCEPT !.content = c, !.parentId = p] :
        c \in BOOLEAN, p \in {NullParent} \cup CommentIds}

\* The bound of every specification: at most MaxActors users and articles
\* together, at most MaxComments comments and MaxFollows follows rows, at
\* most MaxRows rows in the database, and no comment with more than
\* MaxCommentLikes likes, and at most MaxInflight requests begun step by
\* step.  A request whose writes would pass the bound is not explored.
DbRows ==
    Len(users) + Len(waitlist) + Len(articles) + Len(comments) + Len(follows)
    + Len(bookmarks) + Len(readingHistory)

Fits ==
    /\ Len(users) + Len(articles) <= MaxActors
    /\ Len(comments) <= MaxComments
    /\ Len(follows) <= MaxFollows
    /\ DbRows <= MaxRows
    /\ Len(inflight) <= MaxInflight
    /\ \A i \in DOMAIN comments : comments[i].likes <= MaxCommentLikes

\* The article subsystem, one request at a time.
Register == (\E body \in ValidUserBodies : PostRegister(body)) /\ Fits'
CreateArticle ==
    (\E user \in Callers, body \in ValidArticleBodies : PostArticles(user, body)) /\ Fits'
Like == (\E user \in Callers, id \in ArticleIds : PostArticleLike(user, id)) /\ Fits'
Bookmark == (\E user \in Callers, id \in ArticleIds : PostArticleBookmark(user, id)) /\ Fits'
View == (\E user \in Callers, id \in ArticleIds : PostArticleView(user, id)) /\ Fits'

Next == Register \/ CreateArticle \/ Like \/ Bookmark \/ View

Spec == Init /\ [][Next]_vars

\* Registration and the waitlist, with every body.
RegisterAny == (\E body \in UserBodies : PostRegister(body)) /\ Fits'
JoinWaitlist == (\E body \in WaitlistBodies : PostWaitlist(body)) /\ Fits'

NextAuth == RegisterAny \/ JoinWaitlist

SpecAuth == Init /\ [][NextAuth]_vars

\* The comment subsystem, one request at a time.
Comment ==
    (\E user \in Callers, id \in ArticleIds, body \in CommentBodies :
        PostComments(user, id, body)) /\ Fits'
CommentLike == (\E user \in Callers, id \in CommentIds : PostCommentLike(user, id)) /\ Fits'

NextComments == Register \/ CreateArticle \/ Comment

SpecComments == Init /\ [][NextComments]_vars

\* Every POST route behind the authentication gate, one request at a time.
Follow == (\E user \in Callers, id \in UserIds : PostFollow(user, id)) /\ Fits'
Unfollow == (\E user \in Callers, id \in UserIds : PostUnfollow(user, id)) /\ Fits'
Logout == (\E user \in Callers : PostLogout(user)) /\ Fits'

\* This specification holds every table and every route, so its database
\* is kept to GateRows rows.
Gate(Route) == Route /\ DbRows' <= GateRows

NextGate ==
    \/ Gate(Register) \/ Gate(Logout) \/ Gate(CreateArticle) \/ Gate(Like)
    \/ Gate(Bookmark) \/ Gate(View) \/ Gate(Comment) \/ Gate(CommentLike)
    \/ Gate(Follow) \/ Gate(Unfollow)

SpecGate == Init /\ [][NextGate]_vars

\* Overlapping like requests: each runs step by step, in any interleaving.
StartLike == (\E user \in Callers, id \in ArticleIds : BeginArticleLike(user, id)) /\ Fits'
FinishLike == (\E k \in DOMAIN inflight : ResumeArticleLike(k)) /\ Fits'

NextRace == Register \/ CreateArticle \/ StartLike \/ FinishLike

SpecRace == Init /\ [][NextRace]_vars

\* GET /api/articles/:id/comments over threads: at most MaxThread users,
\* articles and comments together, and no comment with more than
\* MaxCommentLikes likes.
ThreadFits ==
    /\ Len(users) + Len(articles) + Len(comments) <= MaxThread
    /\ \A i \in DOMAIN comments : comments[i].likes <= MaxCommentLikes

ThreadRegister == (\E body \in ValidUserBodies : PostRegister(body)) /\ ThreadFits'
ThreadCreateArticle ==
    (\E user \in Callers \ {NoUser}, body \in ValidArticleBodies :
        PostArticles(user, body)) /\ ThreadFits'
ThreadComment ==
    (\E user \in Callers \ {NoUser}, id \in ArticleIds, body \in CommentBodies :
        body.content /\ PostComments(user, id, body)) /\ ThreadFits'
ReadComments == \E id \in ArticleIds : GetArticleComments(id)

NextThread == ThreadRegister \/ ThreadCreateArticle \/ ThreadComment \/ ReadComments

SpecThread == Init /\ [][NextThread]_vars

\* Overlapping register requests: each runs step by step, in any interleaving.
StartRegister == (\E body \in UserBodies : BeginRegister(body)) /\ Fits'
FinishRegister == (\E k \in DOMAIN inflight : ResumeRegister(k)) /\ Fits'

NextSignup == StartRegister \/ FinishRegister

SpecSignup == Init /\ [][NextSignup]_vars

\* The read routes next to the article routes, one request at a time, over
\* a database of up to GateRows rows.
ReadMe == \E user \in Callers : GetMe(user)
ReadArticle == \E id \in ArticleIds : GetArticle(id)
ReadFollowingCheck == \E user \in Callers, id \in UserIds : GetFollowingCheck(user, id)
ReadBookmarks == \E user \in Callers : GetMyBookmarks(user)
ReadHistory == \E user \in Callers : GetMyReadingHistory(user)

NextRead ==
    \/ Gate(Register) \/ Gate(CreateArticle) \/ Gate(Like) \/ Gate(Bookmark)
    \/ Gate(View) \/ Gate(Follow)
    \/ ReadMe \/ ReadArticle \/ ReadFollowingCheck \/ ReadBookmarks \/ ReadHistory

SpecRead == Init /\ [][NextRead]_vars

\* The social graph, one request at a time.
ReadFollowers == \E id \in UserIds : GetFollowers(id)

NextFollow == Register \/ Follow \/ Unfollow \/ ReadFollowers

SpecFollow == Init /\ [][NextFollow]_vars

\* Comments and their like counters, one request at a time.
ThreadCommentLike ==
    (\E user \in Callers, id \in CommentIds : PostCommentLike(user, id)) /\ ThreadFits'

\* The like counters multiply the states of a thread, so this specification
\* keeps users, articles and comments together to MaxLikeRows rows.
LikesGate(Route) == Route /\ Len(users') + Len(articles') + Len(comments') <= MaxLikeRows

NextLikes ==
    \/ LikesGate(ThreadRegister) \/ LikesGate(ThreadCreateArticle)
    \/ LikesGate(ThreadComment) \/ LikesGate(ThreadCommentLike)

SpecLikes == Init /\ [][NextLikes]_vars

\* Overlapping view requests: each runs step by step, in any interleaving.
StartView == (\E user \in Callers, id \in ArticleIds : BeginArticleView(user, id)) /\ Fits'
ContinueView == (\E k \in DOMAIN inflight : StepArticleView(k)) /\ Fits'

NextViewRace == Register \/ CreateArticle \/ StartView \/ ContinueView

SpecViewRace == Init /\ [][NextViewRace]_vars

\* POST /api/articles/:id/bookmark up to the answer of getArticleById.  A
\* request refused here has awaited nothing but the read and leaves no
\* record in inflight.
BeginArticleBookmark(user, id) ==
    LET found == getArticleById(articles, id)
        answered(status, message) ==
            /\ inflight' = inflight
            /\ last' = Answer("bookmark", user, id, NoBody, NoArticle, status, message)
    IN /\ IF user = NoUser
          THEN answered(401, "Not authenticated")
          ELSE IF found = <<>>
          THEN answered(404, "Article not found")
          ELSE /\ inflight' = Append(inflight,
                      Pending("bookmark", user, id, "updateArticle", Head(found)))
               /\ last' = last
       /\ UNCHANGED db

\* POST /api/articles/:id/bookmark from the answer of getArticleById on: one
\* step per awaited call, updateArticle with the bookmarkedBy decided on the
\* row read, then addBookmark or removeBookmark and the response, with
\* which the request leaves inflight.
StepArticleBookmark(k) ==
    LET request == inflight[k]
        toggle == bookmarkToggle(request.article, request.user)
        answered ==
            /\ inflight' = splice(inflight, k)
            /\ last' = Answer("bookmark", request.user, request.id, NoBody,
                              request.article, 200, toggle.message)
    IN /\ request.op = "bookmark"
       /\ \/ /\ request.pc = "updateArticle"
             /\ articles' = updateArticle(articles, request.id, toggle.data)
             /\ inflight' = [inflight EXCEPT ![k].pc =
                    IF toggle.added THEN "addBookmark" ELSE "removeBookmark"]
             /\ UNCHANGED <<bookmarks, last>>
          \/ /\ request.pc = "addBookmark"
             /\ bookmarks' = addBookmark(bookmarks, request.user, request.id)
             /\ answered
             /\ UNCHANGED articles
          \/ /\ request.pc = "removeBookmark"
             /\ bookmarks' = removeBookmark(bookmarks, request.user, request.id)
             /\ answered
             /\ UNCHANGED articles
       /\ UNCHANGED <<users, waitlist, comments, follows, readingHistory>>

\* The bound of the specifications of overlapping toggles: at most MaxActors
\* users and articles together, at most MaxInflight requests in flight at a
\* time, and at most MaxRace users, articles, bookmarks rows,
\* reading_history rows and requests in flight together.
RaceFits ==
    /\ Len(users) + Len(articles) <= MaxActors
    /\ Len(inflight) <= MaxInflight
    /\ Len(users) + Len(articles) + Len(bookmarks) + Len(readingHistory)
       + Len(inflight) <= MaxRace

\* Bookmark requests that overlap.
RaceRegister == (\E body \in ValidUserBodies : PostRegister(body)) /\ RaceFits'
RaceCreateArticle ==
    (\E user \in Callers, body \in ValidArticleBodies : PostArticles(user, body))
    /\ RaceFits'
StartBookmark ==
    (\E user \in Callers, id \in ArticleIds : BeginArticleBookmark(user, id)) /\ RaceFits'
ContinueBookmark == (\E k \in DOMAIN inflight : StepArticleBookmark(k)) /\ RaceFits'

NextBookmarkRace == RaceRegister \/ RaceCreateArticle \/ StartBookmark \/ ContinueBookmark

SpecBookmarkRace == Init /\ [][NextBookmarkRace]_vars

\* The view and bookmark handlers when a storage call rejects: the calls
\* before it have written, nothing is undone, and the catch block answers
\* 500.  calls lists the storage calls made, the rejected one last.

\* POST /api/articles/:id/view with the call named failing rejecting, the
\* writes of the calls before it undone.
PostArticleViewRollingBack(user, id, failing) ==
    LET found == getArticleById(articles, id)
        made == CASE failing = "getArticleById" -> <<failing>>
                  [] failing = "updateArticle" -> <<"getArticleById", failing>>
                  [] failing = "incrementArticleViews" ->
                         <<"getArticleById", "updateArticle", failing>>
                  [] OTHER -> <<"getArticleById", "updateArticle",
                                "incrementArticleViews", failing>>
    IN /\ user # NoUser
       /\ failing # "getArticleById" => (found # <<>> /\ viewOnce(Head(found), user).first)
       /\ last' = [Answer("view", user, id, NoBody,
                          IF failing = "getArticleById" THEN NoArticle ELSE Head(found),
                          500, "Internal server error") EXCEPT !.calls = made]
       /\ UNCHANGED <<db, inflight>>

\* POST /api/articles/:id/view with the call named failing rejecting.
PostArticleViewFailing(user, id, failing) ==
    LET found == getArticleById(articles, id)
        article == Head(found)
        viewed == updateArticle(articles, id, viewOnce(article, user).data)
        reply(pre, calls) ==
            [Answer("view", user, id, NoBody, pre, 500, "Internal server error")
                EXCEPT !.calls = calls]
    IN /\ user # NoUser
       /\ \/ /\ failing = "getArticleById"
             /\ articles' = articles
             /\ last' = reply(NoArticle, <<"getArticleById">>)
          \/ /\ failing = "updateArticle"
             /\ found # <<>> /\ viewOnce(article, user).first
             /\ articles' = articles
             /\ last' = reply(article, <<"getArticleById", "updateArticle">>)
          \/ /\ failing = "incrementArticleViews"
             /\ found # <<>> /\ viewOnce(article, user).first
             /\ articles' = viewed
             /\ last' = reply(article, <<"getArticleById", "updateArticle",
                                         "incrementArticleViews">>)
          \/ /\ failing = "addToReadingHistory"
             /\ found # <<>> /\ viewOnce(article, user).first
             /\ articles' = incrementArticleViews(viewed, id)
             /\ last' = reply(article, <<"getArticleById", "updateArticle",
                                         "incrementArticleViews", "addToReadingHistory">>)
       /\ UNCHANGED <<users, waitlist, comments, follows, bookmarks, readingHistory,
                      inflight>>

\* POST /api/articles/:id/bookmark with the call named failing rejecting.
PostArticleBookmarkFailing(user, id, failing) ==
    LET found == getArticleById(articles, id)
        article == Head(found)
        toggle == bookmarkToggle(article, user)
        reply(pre, calls) ==
            [Answer("bookmark", user, id, NoBody, pre, 500, "Internal server error")
                EXCEPT !.calls = calls]
    IN /\ user # NoUser
       /\ \/ /\ failing = "getArticleById"
             /\ articles' = articles
             /\ last' = reply(NoArticle, <<"getArticleById">>)
          \/ /\ failing = "updateArticle"
             /\ found # <<>>
             /\ articles' = articles
             /\ last' = reply(article, <<"getArticleById", "updateArticle">>)
          \/ /\ failing = "addBookmark"
             /\ found # <<>> /\ toggle.added
             /\ articles' = updateArticle(articles, id, toggle.data)
             /\ last' = reply(article, <<"getArticleById", "updateArticle", "addBookmark">>)
          \/ /\ failing = "removeBookmark"
             /\ found # <<>> /\ ~toggle.added
             /\ articles' = updateArticle(articles, id, toggle.data)
             /\ last' = reply(article, <<"getArticleById", "updateArticle",
                                         "removeBookmark">>)
       /\ UNCHANGED <<users, waitlist, comments, follows, bookmarks, readingHistory,
                      inflight>>

\* The article subsystem, one request at a time, with storage calls that may
\* reject.
ViewFails ==
    (\E user \in Callers, id \in ArticleIds :
        \E failing \in {"getArticleById", "updateArticle", "incrementArticleViews",
                        "addToReadingHistory"} :
            PostArticleViewFailing(user, id, failing)) /\ Fits'
BookmarkFails ==
    (\E user \in Callers, id \in ArticleIds :
        \E failing \in {"getArticleById", "updateArticle", "addBookmark",
                        "removeBookmark"} :
            PostArticleBookmarkFailing(user, id, failing)) /\ Fits'

\* A request within the bound of the smallest specifications: at most
\* MaxParties users and articles together and at most GateRows rows.
PartiesGate(Route) ==
    Route /\ Len(users') + Len(articles') <= MaxParties /\ DbRows' <= GateRows

NextFailure ==
    \/ PartiesGate(Register)
    \/ PartiesGate(CreateArticle)
    \/ PartiesGate(Bookmark)
    \/ PartiesGate(View)
    \/ PartiesGate(ViewFails)
    \/ PartiesGate(BookmarkFails)

SpecFailure == Init /\ [][NextFailure]_vars

\* Like, bookmark and view requests that overlap, in any interleaving of
\* their steps.
NextToggleRace ==
    \/ PartiesGate(Register) \/ PartiesGate(CreateArticle)
    \/ PartiesGate(StartLike) \/ PartiesGate(FinishLike)
    \/ PartiesGate(StartBookmark) \/ PartiesGate(ContinueBookmark)
    \/ PartiesGate(StartView) \/ PartiesGate(ContinueView)

SpecToggleRace == Init /\ [][NextToggleRace]_vars

\* POST /api/comments/:id/like up to its awaited call.  A request refused
\* here leaves no record in inflight.
BeginCommentLike(user, id) ==
    /\ IF user = NoUser
       THEN /\ inflight' = inflight
            /\ last' = Answer("commentLike", user, id, NoBody, NoArticle,
                              401, "Not authenticated")
       ELSE /\ inflight' = Append(inflight,
                   Pending("commentLike", user, id, "likeComment", NoArticle))
            /\ last' = last
    /\ UNCHANGED db

\* StepCommentLike whose update is lost when another request has updated
\* the same comment and is not yet answered.
StepCommentLikeLosing(k) ==
    LET request == inflight[k]
        raced == \E j \in DOMAIN inflight :
                     /\ j # k
                     /\ inflight[j].op = "commentLike"
                     /\ inflight[j].id = request.id
                     /\ inflight[j].pc = "respond"
    IN /\ request.op = "commentLike"
       /\ \/ /\ request.pc = "likeComment"
             /\ comments' = IF raced THEN comments ELSE likeComment(comments, request.id)
             /\ inflight' = [inflight EXCEPT ![k].pc = "respond"]
             /\ last' = last
          \/ /\ request.pc = "respond"
             /\ comments' = comments
             /\ inflight' = splice(inflight, k)
             /\ last' = Answer("commentLike", request.user, request.id, NoBody,
                               NoArticle, 200, "Comment liked successfully")
       /\ UNCHANGED <<users, waitlist, articles, follows, bookmarks, readingHistory>>

\* POST /api/comments/:id/like from its awaited call on: likeComment, one SQL
\* update, and then the response, with which the request leaves inflight.
StepCommentLike(k) ==
    LET request == inflight[k]
    IN /\ request.op = "commentLike"
       /\ \/ /\ request.pc = "likeComment"
             /\ comments' = likeComment(comments, request.id)
             /\ inflight' = [inflight EXCEPT ![k].pc = "respond"]
             /\ last' = last
          \/ /\ request.pc = "respond"
             /\ comments' = comments
             /\ inflight' = splice(inflight, k)
             /\ last' = Answer("commentLike", request.user, request.id, NoBody,
                               NoArticle, 200, "Comment liked successfully")
       /\ UNCHANGED <<users, waitlist, articles, follows, bookmarks, readingHistory>>

\* Overlapping comment like requests: each runs step by step, in any
\* interleaving, with at most MaxInflight requests in flight at a time and
\* at most MaxThread rows and requests in flight together.
StartCommentLike ==
    /\ \E user \in Callers, id \in CommentIds : BeginCommentLike(user, id)
    /\ Len(inflight') <= MaxInflight
    /\ DbRows' + Len(inflight') <= MaxThread
ContinueCommentLike == (\E k \in DOMAIN inflight : StepCommentLike(k)) /\ ThreadFits'

NextLikeRace ==
    \/ PartiesGate(ThreadRegister) \/ PartiesGate(ThreadCreateArticle)
    \/ PartiesGate(ThreadComment)
    \/ PartiesGate(StartCommentLike) \/ PartiesGate(ContinueCommentLike)

SpecLikeRace == Init /\ [][NextLikeRace]_vars

----------------------------------------------------------------------------
\* Properties.

\* C1: when a like request by a user on an article is answered and the very
\* next request is a like by the same user on the same article, the article
\* has, after the second, the likes count and the set of users in likedBy it
\* had before the first.
LikeTwiceRestores ==
    [][(/\ last.op = "like" /\ last.status = 200
        /\ last'.op = "like" /\ last'.status = 200
        /\ last'.user = last.user
        /\ last'.id = last.id)
       => /\ ArticleRow(articles', last.id).likes = last.pre.likes
          /\ Range(ArticleRow(articles', last.id).likedBy) = Range(last.pre.likedBy)]_vars

\* C1's case: a user has just taken back a like on an article that another
\* user likes too, and the article is back at one like.
LikeTwiceWitness ==
    /\ last.op = "like"
    /\ last.message = "Article unliked successfully"
    /\ last.pre.likes = 2
    /\ ArticleRow(articles, last.id).likes = 1
    /\ last.user \notin Range(ArticleRow(articles, last.id).likedBy)

\* C2: with requests running one at a time, every article's likes equals
\* the number of user ids in its likedBy.
LikesCountLikedBy ==
    \A i \in DOMAIN articles : articles[i].likes = Len(articles[i].likedBy)

\* C2's case: an article liked by two users, bookmarked and viewed, after a
\* like was taken back from it.
LikesCountWitness ==
    \E i \in DOMAIN articles :
        /\ articles[i].likes = 1
        /\ articles[i].bookmarkedBy # <<>>
        /\ articles[i].viewedBy # <<>>
        /\ last.op = "like"
        /\ last.id = articles[i].id
        /\ last.message = "Article unliked successfully"

\* C3: a view request by a user who is not yet in the article's viewedBy
\* raises views by exactly 1, puts the user into viewedBy once and adds
\* exactly one reading_history row for the pair; the user then stays in
\* viewedBy, and a view request by a user already in viewedBy changes no
\* table.  So however many view requests a user sends one after the other,
\* only the first changes state.
ViewCountsOnce ==
    [][/\ \A i \in DOMAIN articles :
              Range(articles[i].viewedBy) \subseteq Range(articles'[i].viewedBy)
       /\ (last'.op = "view" /\ last'.status = 200)
          => LET user == last'.user
                 id == last'.id
                 before == ArticleRow(articles, id)
                 after == ArticleRow(articles', id)
                 row == [userId |-> user, articleId |-> id]
             IN IF user \in Range(before.viewedBy)
                THEN UNCHANGED db
                ELSE /\ after.views = before.views + 1
                     /\ Count(after.viewedBy, user) = 1
                     /\ Len(after.viewedBy) = Len(before.viewedBy) + 1
                     /\ Count(readingHistory', row) = Count(readingHistory, row) + 1
                     /\ Len(readingHistory') = Len(readingHistory) + 1]_vars

\* C3's case: a view request by a user already in viewedBy has been
\* answered, and the article still counts one view, one viewer and one
\* reading_history row.
ViewCountsOnceWitness ==
    /\ last.op = "view"
    /\ last.status = 200
    /\ last.user \in Range(last.pre.viewedBy)
    /\ ArticleRow(articles, last.id).views = 1
    /\ ArticleRow(articles, last.id).viewedBy = <<last.user>>
    /\ readingHistory = <<[userId |-> last.user, articleId |-> last.id]>>

\* C9: with bookmark requests running one at a time and no storage call
\* failing, a user is in an article's bookmarkedBy exactly when the
\* bookmarks table holds one row for the pair, no pair has more than one
\* row, and getUserBookmarks gives exactly the articles whose bookmarkedBy
\* holds the user, each once.
BookmarksMirrorBookmarkedBy ==
    \A u \in DOMAIN users : \A i \in DOMAIN articles :
        LET user == users[u].id
            article == articles[i]
            row == [userId |-> user, articleId |-> article.id]
            listed == getUserBookmarks(bookmarks, articles, user)
        IN /\ Count(bookmarks, row) <= 1
           /\ user \in Range(article.bookmarkedBy) <=> Count(bookmarks, row) = 1
           /\ Count(listed, article.id)
                = (IF user \in Range(article.bookmarkedBy) THEN 1 ELSE 0)
           /\ Range(listed) \subseteq {articles[j].id : j \in DOMAIN articles}

\* C9's case: a user with two bookmarked articles has removed the bookmark
\* of one and keeps the other.
BookmarksMirrorWitness ==
    /\ last.op = "bookmark"
    /\ last.message = "Bookmark removed successfully"
    /\ Len(articles) = 2
    /\ getUserBookmarks(bookmarks, articles, last.user) # <<>>

\* C4: a register request with a schema-valid body whose email belongs to a
\* user row is answered 400 "Email already registered" and leaves the users
\* table as it was.
RegisterRejectsUsedEmail ==
    [][(/\ last'.op = "register"
        /\ insertUserSchema(last'.body) = <<>>
        /\ \E i \in DOMAIN users : users[i].email = last'.body.email)
       => /\ last'.status = 400
          /\ last'.message = "Email already registered"
          /\ users' = users]_vars

\* C4's case: both emails are registered and a further valid registration
\* with one of them has been refused.
RegisterRejectsWitness ==
    /\ last.op = "register"
    /\ insertUserSchema(last.body) = <<>>
    /\ last.status = 400
    /\ last.message = "Email already registered"
    /\ Len(users) = 2
    /\ \E i \in DOMAIN users : users[i].email = last.body.email

\* C6: a waitlist request with a schema-valid body raises getWaitlistCount
\* by exactly 1 when its email is not in the waitlist, and is answered with
\* a non-success status and leaves the count unchanged when it is.
WaitlistCountsUniqueEmails ==
    [][(last'.op = "waitlist" /\ insertWaitlistSchema(last'.body) = <<>>)
       => IF \A i \in DOMAIN waitlist : waitlist[i].email # last'.body.email
          THEN getWaitlistCount(waitlist') = getWaitlistCount(waitlist) + 1
          ELSE /\ last'.status \notin 200..299
               /\ getWaitlistCount(waitlist') = getWaitlistCount(waitlist)]_vars

\* C6's case: a duplicate submission has been rejected with two entries on
\* the waitlist.
WaitlistCountsWitness ==
    /\ last.op = "waitlist"
    /\ insertWaitlistSchema(last.body) = <<>>
    /\ last.status = 500
    /\ getWaitlistCount(waitlist) = 2
    /\ Count([i \in DOMAIN waitlist |-> waitlist[i].email], last.body.email) = 1

\* The POST routes the interface table marks as needing a session user.
AuthPostRoutes ==
    {"logout", "articles", "like", "bookmark", "view", "comments",
     "commentLike", "follow", "unfollow"}

RepliesStayOnArticle ==
    \A i \in DOMAIN comments :
        comments[i].parentId # NullParent
        => \E j \in DOMAIN comments :
               /\ comments[j].id = comments[i].parentId
               /\ comments[j].articleId = comments[i].articleId

\* Two like requests on one article, both answered 200, that read the same
\* article row: the second read came before the first write.
LikesOverlapped(k, j) ==
    /\ k # j
    /\ inflight[k].op = "like" /\ inflight[j].op = "like"
    /\ inflight[k].status = 200 /\ inflight[j].status = 200
    /\ inflight[k].id = inflight[j].id
    /\ inflight[k].article = inflight[j].article

\* C7 as stated, for the interleaving it names: once two like requests of
\* one user have overlapped on an article, the stored article's likes
\* differs from the number of ids in its likedBy.
SameUserOverlapBreaksCount ==
    \A k \in DOMAIN inflight : \A j \in DOMAIN inflight :
        (LikesOverlapped(k, j) /\ inflight[k].user = inflight[j].user)
        => ArticleRow(articles, inflight[k].id).likes
             # Len(ArticleRow(articles, inflight[k].id).likedBy)

\* C7 as amended: in every interleaving of like requests every stored
\* article has likes equal to the number of ids in its likedBy, and two
\* overlapping requests of one user get the same answer.
OverlapKeepsCount ==
    /\ \A i \in DOMAIN articles : articles[i].likes = Len(articles[i].likedBy)
    /\ \A k \in DOMAIN inflight : \A j \in DOMAIN inflight :
           (LikesOverlapped(k, j) /\ inflight[k].user = inflight[j].user)
           => inflight[k].message = inflight[j].message

\* C7's case: two like requests of one user have overlapped on an article
\* nobody liked; both were answered "liked" and the article holds one like.
OverlapKeepsCountWitness ==
    \E k \in DOMAIN inflight : \E j \in DOMAIN inflight :
        /\ LikesOverlapped(k, j)
        /\ inflight[k].user = inflight[j].user
        /\ inflight[k].article.likedBy = <<>>
        /\ inflight[k].message = "Article liked successfully"
        /\ ArticleRow(articles, inflight[k].id).likes = 1
        /\ ArticleRow(articles, inflight[k].id).likedBy = <<inflight[k].user>>

\* C8: when a like request of one user writes after the like request of
\* another user that read the same row, neither user being in that row's
\* likedBy, both are answered "Article liked successfully" and the article
\* written holds the row's likedBy plus the later writer alone, with likes
\* one above the row's: the earlier like is lost.
OverlapLosesLike ==
    [][\A k \in DOMAIN inflight : \A j \in DOMAIN inflight :
          (/\ LikesOverlapped(k, j)'
           /\ inflight[k].pc = "updateArticle"
           /\ inflight[j].pc = "done"
           /\ inflight[k].user # inflight[j].user
           /\ inflight[k].user \notin Range(inflight[k].article.likedBy)
           /\ inflight[j].user \notin Range(inflight[k].article.likedBy))
          => LET read == inflight[k].article
                 written == ArticleRow(articles', inflight[k].id)
             IN /\ inflight'[k].message = "Article liked successfully"
                /\ inflight'[j].message = "Article liked successfully"
                /\ written.likedBy = Append(read.likedBy, inflight[k].user)
                /\ written.likes = read.likes + 1
                /\ inflight[j].user \notin Range(written.likedBy)]_vars

\* C8's case: two users' like requests have overlapped on an article nobody
\* liked; both were answered "liked" and the article holds one user id and
\* one like.
OverlapLosesLikeWitness ==
    \E k \in DOMAIN inflight : \E j \in DOMAIN inflight :
        /\ LikesOverlapped(k, j)
        /\ inflight[k].user # inflight[j].user
        /\ inflight[k].article.likedBy = <<>>
        /\ inflight[k].message = "Article liked successfully"
        /\ inflight[j].message = "Article liked successfully"
        /\ Len(ArticleRow(articles, inflight[k].id).likedBy) = 1
        /\ ArticleRow(articles, inflight[k].id).likes = 1

\* C11: the response of GET /api/articles/:id/comments lists exactly the
\* article's top-level comments, each once, by createdAt descending, and
\* with each of them exactly its replies, each once, by createdAt descending.
CommentsNewestFirst ==
    [][last'.op = "getComments"
       => LET listed == last'.result
          IN /\ \A i \in DOMAIN listed : \A j \in DOMAIN listed :
                   i < j => /\ listed[i].createdAt >= listed[j].createdAt
                            /\ listed[i].id # listed[j].id
             /\ {listed[i].id : i \in DOMAIN listed}
                  = {comments[k].id : k \in {n \in DOMAIN comments :
                        /\ comments[n].articleId = last'.id
                        /\ comments[n].parentId = NullParent}}
             /\ \A i \in DOMAIN listed :
                   LET replies == listed[i].replies
                   IN /\ \A a \in DOMAIN replies : \A b \in DOMAIN replies :
                            a < b => /\ replies[a].createdAt >= replies[b].createdAt
                                     /\ replies[a].id # replies[b].id
                      /\ {replies[a].id : a \in DOMAIN replies}
                           = {comments[k].id : k \in {n \in DOMAIN comments :
                                 comments[n].parentId = listed[i].id}}]_vars

\* C11's case: a listing whose one top-level comment has two replies
\* created at different instants, the later one first.
CommentsNewestFirstWitness ==
    /\ last.op = "getComments"
    /\ Len(last.result) = 1
    /\ Len(last.result[1].replies) = 2
    /\ last.result[1].replies[1].createdAt > last.result[1].replies[2].createdAt
    /\ last.result[1].replies[1].id > last.result[1].replies[2].id

\* C12: in every state, whatever the interleaving of register requests, no
\* two rows of the users table have the same email.
UsersEmailsDistinct ==
    \A i \in DOMAIN users : \A j \in DOMAIN users :
        users[i].email = users[j].email => i = j

\* C12's case: two register requests with one email both passed the
\* getUserByEmail check, one of them has inserted its row and the other's
\* insert has been refused.
UsersEmailsDistinctWitness ==
    \E k \in DOMAIN inflight : \E j \in DOMAIN inflight :
        /\ inflight[k].op = "register" /\ inflight[j].op = "register"
        /\ inflight[k].body.email = inflight[j].body.email
        /\ inflight[k].status = 200
        /\ inflight[j].status = 500
        /\ Len(getUserByEmail(users, inflight[k].body.email)) = 1

\* C19 as stated: a register request that passed the getUserByEmail check
\* and whose email has a user row by the time it inserts is answered 400
\* "Email already registered".
OverlapRegisterAnswers400 ==
    [][\A k \in DOMAIN inflight :
          (/\ inflight[k].op = "register"
           /\ inflight[k].pc = "createUser"
           /\ inflight'[k].pc = "done"
           /\ getUserByEmail(users, inflight[k].body.email) # <<>>)
          => /\ inflight'[k].status = 400
             /\ inflight'[k].message = "Email already registered"]_vars

\* The routes that look an article up by the :id parameter.
ArticleRoutes == {"getArticle", "like", "bookmark", "view"}

\* C13: GET /api/articles/:id, and the like, bookmark and view routes called
\* by a session user, answer 404 "Article not found" when no article has the
\* id, and leave the articles, bookmarks and reading_history tables as they
\* were.
MissingArticleIs404 ==
    [][(/\ last'.op \in ArticleRoutes
        /\ last'.op = "getArticle" \/ last'.user # NoUser
        /\ \A i \in DOMAIN articles : articles[i].id # last'.id)
       => /\ last'.status = 404
          /\ last'.message = "Article not found"
          /\ UNCHANGED <<articles, bookmarks, readingHistory>>]_vars

\* C13's case: a session user's bookmark request for an id no article has
\* was answered 404 while that user holds a bookmark on an existing article.
MissingArticleIs404Witness ==
    /\ last.op = "bookmark"
    /\ last.user # NoUser
    /\ last.status = 404
    /\ getArticleById(articles, last.id) = <<>>
    /\ getUserBookmarks(bookmarks, articles, last.user) # <<>>

\* The read routes that answer for the session user.
UserReadRoutes == {"getMe", "getBookmarks", "getHistory", "followingCheck"}

\* C14: called without a session user, each of these routes answers 401
\* "Not authenticated" having called no storage function, and no table
\* changes.
ReadsRejectUnauthenticated ==
    [][(last'.op \in UserReadRoutes /\ last'.user = NoUser)
       => /\ last'.status = 401
          /\ last'.message = "Not authenticated"
          /\ last'.calls = <<>>
          /\ last'.result = <<>>
          /\ UNCHANGED db]_vars

\* C14's case: a bookmarks listing was refused to a caller without a session
\* while the bookmarks table holds a row.
ReadsRejectWitness ==
    /\ last.op = "getBookmarks"
    /\ last.user = NoUser
    /\ last.status = 401
    /\ last.calls = <<>>
    /\ bookmarks # <<>>

\* C15: a follow request by a session user for an existing user is answered
\* 200 and adds one follows row for the pair whatever rows the pair has, so
\* a second request leaves two; and GET /api/users/:id/followers lists each
\* follower once per follows row.
FollowTwiceDuplicates ==
    [][/\ (/\ last'.op = "follow"
           /\ last'.user # NoUser
           /\ \E u \in DOMAIN users : users[u].id = last'.id)
          => LET row == [followerId |-> last'.user, followingId |-> last'.id]
             IN /\ last'.status = 200
                /\ follows' = Append(follows, row)
                /\ (last.op = "follow" /\ last.status = 200
                    /\ last.user = last'.user /\ last.id = last'.id)
                   => Count(follows', row) >= 2
       /\ last'.op = "getFollowers"
          => \A u \in DOMAIN users :
                Count([i \in DOMAIN last'.result |-> last'.result[i].id], users[u].id)
                  = Count(follows, [followerId |-> users[u].id, followingId |-> last'.id])]_vars

\* C15's case: after two follow requests of one user for another user, the
\* followers listing of the target holds the follower twice.
FollowTwiceWitness ==
    /\ last.op = "getFollowers"
    /\ Len(last.result) = 2
    /\ last.result[1].id = last.result[2].id
    /\ last.result[1].id # last.id
    /\ Len(follows) = 2

\* C16: a like request by a session user on an existing comment is answered
\* 200 and raises that comment's likes by exactly 1, whoever liked it
\* before, and changes no other comment; and no request lowers a comment's
\* likes.  So n requests by one user raise likes by n.
CommentLikeAlwaysCounts ==
    [][/\ \A i \in DOMAIN comments : comments'[i].likes >= comments[i].likes
       /\ (/\ last'.op = "commentLike"
           /\ last'.user # NoUser
           /\ \E i \in DOMAIN comments : comments[i].id = last'.id)
          => /\ last'.status = 200
             /\ comments' = [i \in DOMAIN comments |->
                    IF comments[i].id = last'.id
                    THEN [comments[i] EXCEPT !.likes = comments[i].likes + 1]
                    ELSE comments[i]]]_vars

\* C16's case: the only registered user has liked one comment twice, and the
\* comment counts two likes next to a comment that counts none.
CommentLikeWitness ==
    /\ last.op = "commentLike"
    /\ last.status = 200
    /\ Len(users) = 1
    /\ \E i \in DOMAIN comments : comments[i].id = last.id /\ comments[i].likes = 2
    /\ \E i \in DOMAIN comments : comments[i].likes = 0

\* C17: in every state, whatever the interleaving of like requests, every
\* article has likes >= 0.
LikesNeverNegative ==
    \A i \in DOMAIN articles : articles[i].likes >= 0

\* C17's case: a like request read an article with one like, took the
\* unlike branch, and the article is back at no likes.
LikesNeverNegativeWitness ==
    \E k \in DOMAIN inflight :
        /\ inflight[k].op = "like"
        /\ inflight[k].article.likes = 1
        /\ inflight[k].message = "Article unliked successfully"
        /\ ArticleRow(articles, inflight[k].id).likes = 0

\* C18: a waitlist or register request whose body fails validation is
\* answered 400 with the message of the first failing field, in the order
\* of the schema's keys (register: email, password, fullName; waitlist:
\* fullName, email), and no users or waitlist row is inserted.
InvalidBodyIs400 ==
    [][LET body == last'.body
           badEmail == body.email \notin ValidEmails
           badName == body.nameLen < MinFullName
           badPassword == body.pwLen < MinPassword
       IN /\ (last'.op = "register" /\ (badEmail \/ badPassword \/ badName))
             => /\ last'.status = 400
                /\ last'.message =
                     (IF badEmail THEN "Please enter a valid email address"
                      ELSE IF badPassword THEN "Password must be at least 8 characters"
                      ELSE "Full name must be at least 2 characters")
                /\ UNCHANGED <<users, waitlist>>
          /\ (last'.op = "waitlist" /\ (badEmail \/ badName))
             => /\ last'.status = 400
                /\ last'.message =
                     (IF badName THEN "Full name must be at least 2 characters"
                      ELSE "Please enter a valid email address")
                /\ UNCHANGED <<users, waitlist>>]_vars

\* C18's case: a waitlist submission with a one-character name and an
\* invalid email was refused with the name's message, the waitlist holding
\* an entry.
InvalidBodyWitness ==
    /\ last.op = "waitlist"
    /\ last.body.nameLen < MinFullName
    /\ last.body.email \notin ValidEmails
    /\ last.status = 400
    /\ last.message = "Full name must be at least 2 characters"
    /\ Len(waitlist) = 1

\* Two answered view requests of one user on one article that both read the
\* same row, the user not in its viewedBy: both passed the membership test
\* before either wrote.
ViewsOverlapped(k, j) ==
    /\ k # j
    /\ inflight[k].op = "view" /\ inflight[j].op = "view"
    /\ inflight[k].pc = "done" /\ inflight[j].pc = "done"
    /\ inflight[k].status = 200 /\ inflight[j].status = 200
    /\ inflight[k].user = inflight[j].user
    /\ inflight[k].id = inflight[j].id
    /\ inflight[k].article = inflight[j].article
    /\ inflight[k].user \notin Range(inflight[k].article.viewedBy)

\* C20: once two view requests of one user have overlapped on an article,
\* views has grown by at least 2 over the row they read and reading_history
\* holds at least two rows for the pair, while viewedBy holds the user at
\* most once; when no other view request on the article has started, views
\* has grown by exactly 2, reading_history by exactly 2 rows, viewedBy by
\* the user alone, so views exceeds the size of viewedBy by one more than
\* before.
OverlapCountsViewTwice ==
    \A k \in DOMAIN inflight : \A j \in DOMAIN inflight :
        ViewsOverlapped(k, j)
        => LET user == inflight[k].user
               read == inflight[k].article
               stored == ArticleRow(articles, inflight[k].id)
               row == [userId |-> user, articleId |-> inflight[k].id]
               alone == \A n \in DOMAIN inflight :
                            (n # k /\ n # j) => inflight[n].id # inflight[k].id
           IN /\ stored.views >= read.views + 2
              /\ Count(readingHistory, row) >= 2
              /\ Count(stored.viewedBy, user) <= 1
              /\ alone => /\ stored.views = read.views + 2
                          /\ Count(readingHistory, row) = 2
                          /\ stored.viewedBy = Append(read.viewedBy, user)

\* C20's case: two view requests of one user overlapped on an article
\* nobody had viewed; it counts two views and one viewer, and
\* reading_history holds the pair twice.
OverlapCountsViewTwiceWitness ==
    \E k \in DOMAIN inflight : \E j \in DOMAIN inflight :
        /\ ViewsOverlapped(k, j)
        /\ inflight[k].article.views = 0
        /\ ArticleRow(articles, inflight[k].id).views = 2
        /\ ArticleRow(articles, inflight[k].id).viewedBy = <<inflight[k].user>>
        /\ Len(readingHistory) = 2

\* Two bookmark requests in flight, of different users on one article, that
\* both read the same row, a row whose bookmarkedBy holds neither of them.
BookmarksOverlapped(k, j) ==
    /\ k # j
    /\ inflight[k].op = "bookmark" /\ inflight[j].op = "bookmark"
    /\ inflight[k].id = inflight[j].id
    /\ inflight[k].article = inflight[j].article
    /\ inflight[k].user # inflight[j].user
    /\ inflight[k].user \notin Range(inflight[k].article.bookmarkedBy)
    /\ inflight[j].user \notin Range(inflight[k].article.bookmarkedBy)

\* C21: when two bookmark requests of different users overlap on an article
\* neither has bookmarked, the updateArticle of the second writes the
\* bookmarkedBy it read plus its own user, so the first user, whose
\* addBookmark is still to come, is missing from it.  Every request that
\* read a bookmarkedBy without its user takes the add branch: its addBookmark
\* inserts a row whatever rows bookmarks holds and it answers 200, so
\* getUserBookmarks lists the article once more than before for that user.
BookmarkOverlapDuplicates ==
    [][/\ \A k \in DOMAIN inflight : \A j \in DOMAIN inflight :
             (/\ BookmarksOverlapped(k, j)
              /\ inflight[k].pc = "updateArticle"
              /\ inflight[j].pc = "addBookmark"
              /\ Len(inflight') = Len(inflight)
              /\ inflight'[k].pc # "updateArticle")
             => LET written == ArticleRow(articles', inflight[k].id)
                IN /\ written.bookmarkedBy =
                          Append(inflight[k].article.bookmarkedBy, inflight[k].user)
                   /\ inflight[j].user \notin Range(written.bookmarkedBy)
                   /\ inflight'[k].pc = "addBookmark"
                   /\ inflight'[j] = inflight[j]
       /\ \A k \in DOMAIN inflight :
             (/\ inflight[k].op = "bookmark"
              /\ inflight[k].user \notin Range(inflight[k].article.bookmarkedBy)
              /\ inflight[k].pc = "addBookmark"
              /\ inflight' = splice(inflight, k))
             => /\ bookmarks' = Append(bookmarks,
                       [userId |-> inflight[k].user, articleId |-> inflight[k].id])
                /\ last'.status = 200
                /\ last'.message = "Article bookmarked successfully"
                /\ Count(getUserBookmarks(bookmarks', articles', inflight[k].user),
                         inflight[k].id)
                   = Count(getUserBookmarks(bookmarks, articles, inflight[k].user),
                           inflight[k].id) + 1
      ]_vars

\* The state only an overlap leads to: two users hold a bookmarks row for an
\* article whose bookmarkedBy listed one of them alone; the other has then
\* toggled again, alone, was answered "Article bookmarked successfully", and
\* getUserBookmarks returns the article twice for that user.
BookmarkOverlapWitness ==
    /\ inflight = <<>>
    /\ last.op = "bookmark"
    /\ last.status = 200
    /\ last.message = "Article bookmarked successfully"
    /\ Len(last.pre.bookmarkedBy) = 1
    /\ last.user \notin Range(last.pre.bookmarkedBy)
    /\ ArticleRow(articles, last.id).bookmarkedBy = Append(last.pre.bookmarkedBy, last.user)
    /\ Len(bookmarks) = 3
    /\ getUserBookmarks(bookmarks, articles, last.user) = <<last.id, last.id>>
    /\ getUserBookmarks(bookmarks, articles, Head(last.pre.bookmarkedBy)) = <<last.id>>

\* C22: a view request whose incrementArticleViews rejects is answered 500
\* and leaves the user in viewedBy with views as it was and no
\* reading_history row; a view request by a user already in viewedBy
\* changes no table; so in no step does the number of ids in viewedBy minus
\* views shrink, and views stays below the size of viewedBy.  A bookmark
\* request whose addBookmark rejects is answered 500 and leaves the user in
\* bookmarkedBy with the bookmarks table as it was.
FailureKeepsWrites ==
    [][/\ (/\ last'.op = "view"
           /\ last'.calls = <<"getArticleById", "updateArticle", "incrementArticleViews">>)
          => LET before == ArticleRow(articles, last'.id)
             IN /\ last'.status = 500
                /\ last'.message = "Internal server error"
                /\ ArticleRow(articles', last'.id) =
                       [before EXCEPT !.viewedBy = Append(@, last'.user)]
                /\ readingHistory' = readingHistory
       /\ (/\ last'.op = "view"
           /\ last'.id \in {articles[i].id : i \in DOMAIN articles}
           /\ last'.user \in Range(ArticleRow(articles, last'.id).viewedBy))
          => /\ db' = db
             /\ last'.status = 200 \/ last'.calls = <<"getArticleById">>
       /\ \A i \in DOMAIN articles :
             Len(articles'[i].viewedBy) - articles'[i].views
             >= Len(articles[i].viewedBy) - articles[i].views
       /\ (/\ last'.op = "bookmark"
           /\ last'.calls = <<"getArticleById", "updateArticle", "addBookmark">>)
          => LET before == ArticleRow(articles, last'.id)
             IN /\ last'.status = 500
                /\ last'.message = "Internal server error"
                /\ ArticleRow(articles', last'.id) =
                       [before EXCEPT !.bookmarkedBy = Append(@, last'.user)]
                /\ bookmarks' = bookmarks
      ]_vars

\* A user's view failed at incrementArticleViews and the user has then
\* viewed the article again with answer 200: views is below the size of
\* viewedBy; and a user is in an article's bookmarkedBy with no bookmarks
\* row.
FailureKeepsWritesWitness ==
    /\ last.op = "view"
    /\ last.status = 200
    /\ last.user \in Range(last.pre.viewedBy)
    /\ ArticleRow(articles, last.id) = last.pre
    /\ last.pre.views < Len(last.pre.viewedBy)
    /\ readingHistory = <<>>
    /\ \E i \in DOMAIN articles : \E u \in Range(articles[i].bookmarkedBy) :
           getUserBookmarks(bookmarks, articles, u) = <<>>

\* The comments whose parent is itself a reply.
NestedReplies ==
    {c \in Range(comments) :
        \E p \in Range(comments) : p.id = c.parentId /\ p.parentId # NullParent}

\* C23: the response of GET /api/articles/:id/comments lists, once each, the
\* article's comments with a null parentId and nothing else, and gives each
\* of them, once each, the comments whose parentId is its id and nothing
\* else; a comment whose parent is a reply is in neither list.  POST
\* /api/articles/:id/comments stores such a comment like any other reply.
RepliesOneLevel ==
    [][/\ last'.op = "getComments"
          => LET listed == last'.result
                 ids(s) == {s[i].id : i \in DOMAIN s}
                 stored(S) == {c.id : c \in S}
             IN /\ Cardinality(ids(listed)) = Len(listed)
                /\ ids(listed) = stored({c \in Range(comments) :
                       c.articleId = last'.id /\ c.parentId = NullParent})
                /\ \A i \in DOMAIN listed :
                      /\ Cardinality(ids(listed[i].replies)) = Len(listed[i].replies)
                      /\ ids(listed[i].replies) =
                             stored({c \in Range(comments) : c.parentId = listed[i].id})
                /\ \A c \in NestedReplies :
                      /\ c.id \notin ids(listed)
                      /\ \A i \in DOMAIN listed : c.id \notin ids(listed[i].replies)
       /\ (/\ last'.op = "comments"
           /\ last'.user # NoUser
           /\ last'.body.content
           /\ last'.id \in {articles[i].id : i \in DOMAIN articles}
           /\ \E p \in Range(comments) :
                 p.id = last'.body.parentId /\ p.parentId # NullParent)
          => /\ last'.status = 200
             /\ Len(comments') = Len(comments) + 1
             /\ comments'[Len(comments')].parentId = last'.body.parentId
             /\ comments'[Len(comments')].articleId = last'.id
             /\ comments'[Len(comments')] \in NestedReplies'
      ]_vars

\* An article has a comment, a reply to it and a reply to that reply; the
\* response lists the comment with the one reply, and the reply's reply is
\* nowhere in it.
RepliesOneLevelWitness ==
    /\ last.op = "getComments"
    /\ Len(comments) = 3
    /\ \A i \in DOMAIN comments : comments[i].articleId = last.id
    /\ \E c \in NestedReplies : c.id = 3
    /\ Len(last.result) = 1
    /\ last.result[1].id = 1
    /\ Len(last.result[1].replies) = 1
    /\ last.result[1].replies[1].id = 2

\* C24: an authenticated POST /api/articles/:id/comments with content, on an
\* existing article, whose parentId is absent or names an existing comment
\* is answered 200 and appends one row with that article, user and
\* parentId (null when absent or falsy).  With a parentId the response is
\* the parent comment with its replies, the new row among them; without one
\* it is the new row itself.
CommentResponse ==
    [][(/\ last'.op = "comments"
        /\ last'.user # NoUser
        /\ last'.body.content
        /\ last'.id \in {articles[i].id : i \in DOMAIN articles}
        /\ last'.body.parentId \in {NullParent} \cup {c.id : c \in Range(comments)})
       => LET new == comments'[Len(comments')]
              given == last'.body.parentId
          IN /\ last'.status = 200
             /\ Len(comments') = Len(comments) + 1
             /\ SubSeq(comments', 1, Len(comments)) = comments
             /\ new.articleId = last'.id
             /\ new.userId = last'.user
             /\ new.parentId = given
             /\ Len(last'.result) = 1
             /\ IF given = NullParent
                THEN last'.result[1] = [id |-> new.id, parentId |-> NullParent,
                                        createdAt |-> new.createdAt]
                ELSE LET sent == last'.result[1]
                         parent == CHOOSE c \in Range(comments) : c.id = given
                     IN /\ sent.id = given
                        /\ sent.parentId = parent.parentId
                        /\ sent.createdAt = parent.createdAt
                        /\ \E i \in DOMAIN sent.replies : sent.replies[i].id = new.id
                        /\ {sent.replies[i].id : i \in DOMAIN sent.replies}
                             = {c.id : c \in {r \in Range(comments') : r.parentId = given}}
      ]_vars

\* A reply to comment 1, which already had a reply, has been posted: the
\* response is comment 1 with both replies, the new one among them.
CommentResponseWitness ==
    /\ last.op = "comments"
    /\ last.status = 200
    /\ last.body.parentId = 1
    /\ Len(comments) = 3
    /\ comments[3].parentId = 1
    /\ last.result[1].id = 1
    /\ {last.result[1].replies[i].id : i \in DOMAIN last.result[1].replies} = {2, 3}

\* C25 as stated: an authenticated POST /api/comments/:id/like for a comment
\* id that is not stored, and an authenticated POST /api/users/:id/follow
\* for a user id that is not stored, are answered 404 and change no table.
MissingTargetIs404 ==
    [][(/\ last'.user # NoUser
        /\ \/ /\ last'.op = "commentLike"
              /\ last'.id \notin {c.id : c \in Range(comments)}
           \/ /\ last'.op = "follow"
              /\ last'.id \notin {u.id : u \in Range(users)})
       => /\ last'.status = 404
          /\ db' = db
      ]_vars

\* C26 as stated: no user record in a response body has a password key.
ResponsesOmitPassword ==
    \A i \in DOMAIN last.sent : "password" \notin last.sent[i]

\* C27: an authenticated POST /api/users/:id/unfollow by user a for target b
\* is answered 200 and leaves no follows row (a, b), however many there
\* were, so isFollowing(a, b) is false; the rows of every other pair, (b, a)
\* among them when b is not a, are kept in their order, and no other table
\* changes.
UnfollowRemovesPair ==
    [][(last'.op = "unfollow" /\ last'.user # NoUser)
       => LET a == last'.user
              b == last'.id
              ofPair(r) == r.followerId = a /\ r.followingId = b
          IN /\ last'.status = 200
             /\ \A i \in DOMAIN follows' : ~ofPair(follows'[i])
             /\ ~isFollowing(follows', a, b)
             /\ follows' = SelectSeq(follows, LAMBDA r : ~ofPair(r))
             /\ a # b => isFollowing(follows', b, a) = isFollowing(follows, b, a)
             /\ <<users, waitlist, articles, comments, bookmarks, readingHistory>>'
                    = <<users, waitlist, articles, comments, bookmarks, readingHistory>>
      ]_vars

\* User a has unfollowed b while b follows a: the row (b, a) is still there
\* and no row (a, b) is.
UnfollowRemovesPairWitness ==
    /\ last.op = "unfollow"
    /\ last.status = 200
    /\ last.user # last.id
    /\ follows = <<[followerId |-> last.id, followingId |-> last.user]>>
    /\ ~isFollowing(follows, last.user, last.id)
    /\ isFollowing(follows, last.id, last.user)

\* C28: in every state, whatever the interleaving of the steps of like,
\* bookmark and view requests, no user id is twice in an article's likedBy,
\* bookmarkedBy or viewedBy.
NoDuplicateMembers ==
    \A i \in DOMAIN articles :
        \A members \in {articles[i].likedBy, articles[i].bookmarkedBy, articles[i].viewedBy} :
            \A a \in DOMAIN members : \A b \in DOMAIN members :
                members[a] = members[b] => a = b

\* A like and a view request of one user both read the same row before
\* either wrote, and both are answered: the user is once in likedBy and once
\* in viewedBy.
NoDuplicateMembersWitness ==
    \E k \in DOMAIN inflight : \E j \in DOMAIN inflight :
        /\ inflight[k].op = "like" /\ inflight[j].op = "view"
        /\ inflight[k].pc = "done" /\ inflight[j].pc = "done"
        /\ inflight[k].status = 200 /\ inflight[j].status = 200
        /\ inflight[k].user = inflight[j].user
        /\ inflight[k].id = inflight[j].id
        /\ inflight[k].article = inflight[j].article
        /\ inflight[k].article.likedBy = <<>>
        /\ inflight[k].article.viewedBy = <<>>
        /\ LET row == ArticleRow(articles, inflight[k].id)
           IN /\ row.likedBy = <<inflight[k].user>>
              /\ row.viewedBy = <<inflight[k].user>>

\* C29: whatever other like requests are in flight, the likeComment of a
\* request on a stored comment raises that comment's likes by exactly 1 and
\* changes nothing else, the request is then answered 200, and no step
\* lowers a comment's likes: k overlapping requests raise likes by k.
OverlapCountsEveryLike ==
    [][/\ \A i \in DOMAIN comments : comments'[i].likes >= comments[i].likes
       /\ \A k \in DOMAIN inflight :
             (/\ inflight[k].op = "commentLike"
              /\ inflight[k].pc = "likeComment"
              /\ Len(inflight') = Len(inflight)
              /\ inflight'[k].pc # "likeComment"
              /\ \E i \in DOMAIN comments : comments[i].id = inflight[k].id)
             => /\ inflight'[k].pc = "respond"
                /\ comments' = [i \in DOMAIN comments |->
                       IF comments[i].id = inflight[k].id
                       THEN [comments[i] EXCEPT !.likes = comments[i].likes + 1]
                       ELSE comments[i]]
       /\ \A k \in DOMAIN inflight :
             (inflight[k].pc = "respond" /\ inflight' = splice(inflight, k))
             => /\ last'.op = "commentLike"
                /\ last'.status = 200
                /\ last'.message = "Comment liked successfully"
                /\ comments' = comments
      ]_vars

\* Two like requests on one comment have both run likeComment before either
\* was answered, and the comment, which had no likes, counts two.
OverlapCountsEveryLikeWitness ==
    /\ Len(inflight) = 2
    /\ inflight[1].op = "commentLike" /\ inflight[2].op = "commentLike"
    /\ inflight[1].pc = "respond" /\ inflight[2].pc = "respond"
    /\ inflight[1].id = inflight[2].id
    /\ \E i \in DOMAIN comments :
           comments[i].id = inflight[1].id /\ comments[i].likes = 2

\* C30: a like request answered 200, run with no other request in between,
\* leaves every other article as it was; of the article it keeps id, author,
\* views, viewedBy and bookmarkedBy, and the other users of likedBy in their
\* order; and it changes no other table.  (updatedAt is not in the model.)
LikeChangesOnlyLikes ==
    [][(last'.op = "like" /\ last'.status = 200)
       => LET U == last'.user
              before == ArticleRow(articles, last'.id)
              after == ArticleRow(articles', last'.id)
              others(s) == SelectSeq(s, LAMBDA u : u # U)
          IN /\ Len(articles') = Len(articles)
             /\ \A i \in DOMAIN articles :
                   articles[i].id # last'.id => articles'[i] = articles[i]
             /\ after.id = before.id
             /\ after.authorId = before.authorId
             /\ after.views = before.views
             /\ after.viewedBy = before.viewedBy
             /\ after.bookmarkedBy = before.bookmarkedBy
             /\ others(after.likedBy) = others(before.likedBy)
             /\ (U \in Range(after.likedBy)) # (U \in Range(before.likedBy))
             /\ <<users, waitlist, comments, follows, bookmarks, readingHistory>>'
                    = <<users, waitlist, comments, follows, bookmarks, readingHistory>>
      ]_vars

\* A user has liked an article that another user likes, has bookmarked and
\* has viewed: the other user is still in likedBy, and views, viewedBy,
\* bookmarkedBy, the bookmarks row and the reading_history row are there.
LikeChangesOnlyLikesWitness ==
    /\ last.op = "like"
    /\ last.status = 200
    /\ LET row == ArticleRow(articles, last.id)
       IN /\ Len(row.likedBy) = 2
          /\ row.likedBy[2] = last.user
          /\ row.views = 1
          /\ row.viewedBy = <<row.likedBy[1]>>
          /\ row.bookmarkedBy = <<row.likedBy[1]>>
    /\ Len(bookmarks) = 1
    /\ Len(readingHistory) = 1

====
